---- MODULE Spec2Model ----
(***************************************************************************)
(* The ingest side of libas: one connection handler (libaserv              *)
(* handleConnection) reading the framed utterance protocol from one peer   *)
(* and writing audio containers under the recordings tree.                 *)
(*                                                                         *)
(* 32-bit quantities (frame prefixes, byte counts, header size fields) are *)
(* kept exact.  The model checker's integers are narrower than a uint32,   *)
(* so such a quantity is a pair <<hi, lo>> of 16-bit halves, value         *)
(* hi * 2^16 + lo; a Go int (len of a slice) is the same pair with an      *)
(* unbounded hi.                                                           *)
(***************************************************************************)
EXTENDS Integers, Sequences, FiniteSets, Bags, TLC

\* ---------------------------------------------------------------- bounds
\* Frames the peer transmits on the connection.
MaxFrames == 4
\* Last reading of the clock, in ticks.
MaxTime == 5

\* ------------------------------------------------------------- constants
\* time.Second in clock ticks: a tick is half a second, so that durations
\* below, at and above one second are all distinguished.
Second == 2

\* ------------------------------------------------- wide integer arithmetic
Half == 2^16

Num(n) == <<n \div Half, n % Half>>

Add(x, y) == <<x[1] + y[1] + ((x[2] + y[2]) \div Half), (x[2] + y[2]) % Half>>

Sub(x, y) ==
  IF x[2] >= y[2] THEN <<x[1] - y[1], x[2] - y[2]>>
  ELSE <<x[1] - y[1] - 1, x[2] + Half - y[2]>>

Less(x, y) == x[1] < y[1] \/ (x[1] = y[1] /\ x[2] < y[2])

\* The conversion uint32(n) of a Go int: the low 32 bits.
Uint32(x) == <<x[1] % Half, x[2]>>

\* binary.BigEndian.Uint32 of a 4-byte slice.
BigEndianUint32(m) == <<m[1] * 256 + m[2], m[3] * 256 + m[4]>>

\* binary.BigEndian.PutUint32: the 4 bytes of a uint32, most significant first.
PutUint32(v) == <<v[1] \div 256, v[1] % 256, v[2] \div 256, v[2] % 256>>

StartMarker == BigEndianUint32(<<255, 255, 255, 255>>)
EndMarker == BigEndianUint32(<<0, 0, 0, 0>>)

\* ------------------------------------------------------- the byte stream
\* The bytes the peer has written and the handler has not yet read, as a
\* sequence of runs [k, b, n]: n bytes, each of value b.  k is history
\* only, the code never sees it: it says what the peer meant the first byte
\* of the run to be ("S" the first byte of a start marker, "E" of an end
\* marker, "P" of the prefix of a complete payload frame, "T" of the prefix
\* of a payload frame the peer did not finish, "x" any other byte).
Run(k, b, n) == [k |-> k, b |-> b, n |-> n]

Bytes(k, bs) ==
  [i \in 1..Len(bs) |-> Run(IF i = 1 THEN k ELSE "x", bs[i], Num(1))]

RECURSIVE StreamLen(_)
StreamLen(s) == IF s = <<>> THEN Num(0) ELSE Add(s[1].n, StreamLen(Tail(s)))

\* The stream holds at least c bytes.
Has(s, c) == ~Less(StreamLen(s), c)

\* The i-th byte of the stream, i a small number.
RECURSIVE ByteAt(_, _)
ByteAt(s, i) ==
  IF ~Less(s[1].n, Num(i)) THEN s[1].b ELSE ByteAt(Tail(s), i - s[1].n[2])

\* The first c bytes of the stream, as plain bytes.
RECURSIVE Take(_, _)
Take(s, c) ==
  IF c = Num(0) \/ s = <<>> THEN <<>>
  ELSE IF ~Less(c, s[1].n)
       THEN <<Run("x", s[1].b, s[1].n)>> \o Take(Tail(s), Sub(c, s[1].n))
  ELSE <<Run("x", s[1].b, c)>>

\* The stream after c bytes were read from it.
RECURSIVE Drop(_, _)
Drop(s, c) ==
  IF c = Num(0) \/ s = <<>> THEN s
  ELSE IF ~Less(c, s[1].n) THEN Drop(Tail(s), Sub(c, s[1].n))
  ELSE <<Run("x", s[1].b, Sub(s[1].n, c))>> \o Tail(s)

VARIABLES
  now,                      \* the clock (time.Now), in ticks
  ctxDone,                  \* the root context is cancelled
  stream,                   \* bytes written by the peer, not yet read
  peerClosed,               \* the peer has closed its side
  nSent,                    \* frames the peer has transmitted
  pc,                       \* "accept": handleNewConnection reads the token;
                            \* "rejected": it returned without a client;
                            \* "loop": handleConnection is in its for loop;
                            \* "done": handleConnection returned
  isReceivingTransmission,
  transmissionBuffer,       \* len(transmissionBuffer)
  file,                     \* 0 is nil; otherwise an index into arts
  transmissionStartTime,    \* 0 is the zero time.Time
  arts,                     \* one record per file created by createWavFile
  clientList,               \* the ids that have a record in the ClientList
  connOpen,                 \* the server has not closed the connection
  toPeer,                   \* what the server has written to the connection
  ap,                       \* the AudioProcessor of the capture client, with
                            \* the state of its context and its connection
  tasks,                    \* the listener of Launch, "open" or "closed"; the
                            \* accept loop of Launch and watchFiles, each
                            \* "running" until it has returned or the
                            \* process has exited
  queue,                    \* the jobs in the buffer of s.queue
  stop,                     \* Stop: "running"; "closing", s.queue is closed;
                            \* "stopped", server and watcher are closed too
  crashed,                  \* a goroutine of the service has panicked
  clients,                  \* s.clients: the pointer stored for an id, 0 none
  heap,                     \* heap[p]: Messages of the ClientTranscriptions at p
  wk,                       \* the workers: position and locals of each
  subscribers,              \* s.subscribers: the slice stored for an id
  arrays,                   \* the backing arrays of the slices of connections
  conns,                    \* the wsConnections: position, clientID, send
  watched,                  \* the paths the watcher watches
  env,                      \* what the surroundings of the service may do
  hist                      \* history of the service, never read by it

\* The variables of the connection handler, without the root context.
ingest == <<now, stream, peerClosed, nSent, pc, isReceivingTransmission,
            transmissionBuffer, file, transmissionStartTime, arts, clientList,
            connOpen, toPeer, tasks, ap>>

\* The variables of the transcription service.
scribe == <<queue, stop, crashed, clients, heap, wk, subscribers, arrays,
            conns, watched, env, hist>>

vars == <<now, ctxDone, stream, peerClosed, nSent, pc, isReceivingTransmission,
          transmissionBuffer, file, transmissionStartTime, arts, clientList,
          connOpen, toPeer, tasks, ap, queue, stop, crashed, clients, heap, wk,
          subscribers, arrays, conns, watched, env, hist>>

\* -------------------------------------------------------------- strings
\* A string is a sequence of tokens, a path a sequence of strings.
HasSuffix(str, suffix) ==
  /\ Len(str) >= Len(suffix)
  /\ SubSeq(str, Len(str) - Len(suffix) + 1, Len(str)) = suffix

Contains(str, substr) ==
  \E i \in 1..(Len(str) - Len(substr) + 1) : SubSeq(str, i, i + Len(substr) - 1) = substr

Separator == "/"

\* The name of a path: its components with the separator between them.
RECURSIVE Join(_)
Join(path) ==
  IF path = <<>> THEN <<>>
  ELSE IF Len(path) = 1 THEN path[1]
  ELSE path[1] \o <<Separator>> \o Join(Tail(path))

\* strings.Split of a name at the separator.
RECURSIVE Split(_)
Split(str) ==
  IF \E i \in 1..Len(str) : str[i] = Separator
  THEN LET i == CHOOSE i \in 1..Len(str) :
                  str[i] = Separator /\ \A j \in 1..(i - 1) : str[j] # Separator
       IN <<SubSeq(str, 1, i - 1)>> \o Split(SubSeq(str, i + 1, Len(str)))
  ELSE <<str>>

\* filepath.Rel of a name below the base directory.
Rel(base, name) == SubSeq(name, Len(base) + 2, Len(name))

\* filepath.Base: the last component of a name.
Base(name) == LET parts == Split(name) IN parts[Len(parts)]

\* The ids of the endpoints that have directories in the recordings tree.
UUIDs == {"u1", "u2"}

\* A parse that takes every name for an id.
ParseAny(str) == Len(str) = 1

\* The strings a request may name: the ids, and a string that is none.
Keys == UUIDs \cup {"x"}

\* uuid.Parse succeeds.
Parse(str) == Len(str) = 1 /\ str[1] \in UUIDs

\* The first moment of the second day.
Midnight == 4 * Second

\* Format("20060102") of a time: the name of its day.
Format(t) == IF t < Midnight THEN <<"d1">> ELSE <<"d2">>

\* getCurrentDateDir: the directory name of the current day.
getCurrentDateDir == Format(now)

\* config.RecordingsDir, as main sets it.
RecordingsDir == <<"recordings">>

\* ------------------------------------------------------ the service at rest
\* cfg.Workers as main configures it, which is also the default of New.
Workers == 2

\* The wsConnections handleWebSocket can make.
MaxConns == 4
ConnIDs == 1..MaxConns


\* A worker that waits for a job.  Its locals in processJob: the job, the
\* *ClientTranscriptions t and the Messages m read from it, the message,
\* the slice the publish ranges over and the index of the range; at and
\* seen record the subscribers at the Load and those the range has visited.
Idle == [pc |-> "idle", job |-> <<>>, t |-> 0, m |-> <<>>, msg |-> <<>>,
         hdr |-> <<>>, i |-> 0, at |-> {}, seen |-> {}]

\* A wsConnection that was not made yet.  send is the buffer of the
\* channel, a sequence of runs of equal envelopes; acc and out are history:
\* the envelopes the channel has taken and those writePump has written to
\* the connection, in order, as runs.
NoConn == [pc |-> "none", clientID |-> "", send |-> <<>>, hdr |-> <<>>,
           wp |-> "none", acc |-> <<>>, out |-> <<>>]

\* No entry in s.subscribers; an entry is a slice: backing array and length.
NoSlice == [ok |-> FALSE, arr |-> 0, len |-> 0]

\* No request was answered yet.
NoResponse == [handler |-> "", id |-> "", status |-> 0, body |-> <<>>]

NoHistory ==
  [events |-> 0, offered |-> {}, attempts |-> 0, accepted |-> EmptyBag, dropped |-> 0,
   received |-> 0, passed |-> <<>>, stored |-> EmptyBag, replaced |-> 0,
   writes |-> 0, made |-> 0, closes |-> 0, resp |-> NoResponse,
   skip |-> [err |-> "", ret |-> ""]]

\* The service after New and Start: the queue is empty, the maps are
\* empty, every worker waits for a job, and the watcher watches the
\* recordings directory and the directory of the day.
Started(e) ==
  /\ queue = <<>>
  /\ stop = "running"
  /\ crashed = FALSE
  /\ clients = [u \in UUIDs |-> 0]
  /\ heap = <<>>
  /\ wk = [w \in 1..Workers |-> Idle]
  /\ subscribers = [u \in Keys |-> NoSlice]
  /\ arrays = <<>>
  /\ conns = [c \in ConnIDs |-> NoConn]
  /\ watched = {RecordingsDir, Join(<<RecordingsDir, getCurrentDateDir>>)}
  /\ env = e
  /\ hist = NoHistory

\* The surroundings of a service to which nothing happens.
Quiet == [events |-> 0, shapes |-> {}, receives |-> 0, conns |-> 0, closes |-> 0,
          writes |-> 0, outputs |-> {}]

\* The id uuid.New gives to the connection.
clientID == "u1"

\* ------------------------------------------------------------- slices
\* cap(slice): the length of its backing array, 0 for a slice without one.
Cap(arrs, hdr) == IF hdr.arr = 0 THEN 0 ELSE Len(arrs[hdr.arr])

\* The wsConnections a slice holds.
Elements(arrs, hdr) == {arrs[hdr.arr][k] : k \in 1..hdr.len}

\* make([]*wsConnection, 0).
EmptySlice == [ok |-> TRUE, arr |-> 0, len |-> 0]

\* append(slice, c): in place when the backing array has room, otherwise
\* into a new array of twice the capacity.  The arrays and the new slice.
AppendSlice(arrs, hdr, c) ==
  IF hdr.len < Cap(arrs, hdr)
  THEN [arrays |-> [arrs EXCEPT ![hdr.arr][hdr.len + 1] = c],
        hdr |-> [hdr EXCEPT !.len = @ + 1]]
  ELSE LET cap == IF Cap(arrs, hdr) = 0 THEN 1 ELSE 2 * Cap(arrs, hdr)
           new == [k \in 1..cap |->
                     IF k <= hdr.len THEN arrs[hdr.arr][k]
                     ELSE IF k = hdr.len + 1 THEN c ELSE 0]
       IN [arrays |-> Append(arrs, new),
           hdr |-> [ok |-> TRUE, arr |-> Len(arrs) + 1, len |-> hdr.len + 1]]

\* append(slice[:i], slice[i+1:]...): the elements after i move down by
\* one in the backing array, whose last element stays where it was.
RemoveAt(arrs, hdr, i) ==
  [arrays |-> [arrs EXCEPT ![hdr.arr] =
                 [k \in DOMAIN @ |-> IF i <= k /\ k < hdr.len THEN @[k + 1] ELSE @[k]]],
   hdr |-> [hdr EXCEPT !.len = @ - 1]]

\* The connection as the goroutine of handleNewConnection finds it.
\* NewAudioProcessor, connected and with a context that is not cancelled:
\* done, the context of Launch is cancelled; broken, a write on the
\* connection has failed; lost, connClosed was signalled.
NewAudioProcessor ==
  [isTransmitting |-> FALSE, lastNoiseTime |-> 0, done |-> FALSE,
   broken |-> FALSE, lost |-> FALSE]

\* Launch listens and is in its accept loop, watchFiles in its for loop.
Launched == [listener |-> "open", launch |-> "running", watchFiles |-> "running"]

Accepted ==
  /\ now = Second
  /\ ctxDone = FALSE
  /\ stream = <<>>
  /\ peerClosed = FALSE
  /\ nSent = 0
  /\ pc = "accept"
  /\ isReceivingTransmission = FALSE
  /\ transmissionBuffer = Num(0)
  /\ file = 0
  /\ transmissionStartTime = 0
  /\ arts = <<>>
  /\ clientList = {}
  /\ connOpen = TRUE
  /\ toPeer = <<>>
  /\ tasks = Launched
  /\ ap = NewAudioProcessor
  /\ Started(Quiet)

\* The connection as the for loop of handleConnection finds it at a time:
\* the peer sent the token and nothing more, the client is listed and has
\* its id.
EstablishedAt(t) ==
  /\ now = t
  /\ ctxDone = FALSE
  /\ stream = <<>>
  /\ peerClosed = FALSE
  /\ nSent = 0
  /\ pc = "loop"
  /\ isReceivingTransmission = FALSE
  /\ transmissionBuffer = Num(0)
  /\ file = 0
  /\ transmissionStartTime = 0
  /\ arts = <<>>
  /\ clientList = {clientID}
  /\ connOpen = TRUE
  /\ toPeer = <<clientID>>
  /\ tasks = Launched
  /\ ap = NewAudioProcessor

Established == EstablishedAt(Second)

Init == Established /\ Started(Quiet)

\* ------------------------------------------------------ the recordings
\* One record per os.Create of createWavFile.  path, disk, open and the
\* container fields are the file; t0, frames, received and ops are history:
\*   t0        the time the file was created;
\*   frames    the prefixes the handler interpreted while this file was its
\*             current file: what the peer meant by the first byte (k), what
\*             the handler read ("start", "end", "chunk") and whether that
\*             was a second or more after t0; the first is the one that
\*             created the file;
\*   received  the payload bytes read from the connection for this file;
\*   head      the bytes of the file at offsets 0 to 43, <<>> before any;
\*   data      the bytes of the file from offset 44, as runs;
\*   ops       the calls made on this file or its name, in order;
\*   on        the name each of these calls was made with.
\* disk is what became of the file's name: "wav" it is there under its
\* plain name, "removed", "incomplete" renamed with the .incomplete suffix,
\* "whisper" replaced by its _whisper sibling, "overwritten" truncated by
\* a later os.Create of the same name.
\* updateCurrentDay and createWavFile: recordings/<day>/<client>/audio_<HHMMSS>.wav
\* at a time, as the day and the second of the day.
FileName(t) == <<Format(t), (t \div Second) % (Midnight \div Second)>>

NewArt(k) ==
  [path |-> FileName(now), disk |-> "wav", open |-> TRUE, hdr |-> FALSE,
   chunkSize |-> Num(0), dataSize |-> Num(0), dataLen |-> Num(0),
   head |-> <<>>, data |-> <<>>,
   t0 |-> now, frames |-> <<[k |-> k, m |-> "start", late |-> FALSE]>>,
   received |-> Num(0),
   ops |-> <<>>, on |-> <<>>]

\* The named file, where it still is under its plain name, becomes d.
AtPath(as, p, d) ==
  [i \in 1..Len(as) |->
     IF as[i].path = p /\ as[i].disk = "wav" THEN [as[i] EXCEPT !.disk = d]
     ELSE as[i]]

\* The name of a file with the day of the call in place of its own.
NameToday(a) == <<getCurrentDateDir, a.path[2]>>

\* file.Name(): the name the file was created with.
Name(a) == a.path

Called(as, f, op) ==
  [as EXCEPT ![f].ops = Append(@, op), ![f].on = Append(@, Name(as[f]))]

\* audio_HHMMSS.wav in the client's directory: the name is the second of
\* the clock, and os.Create truncates a file that is already there.
createWavFile(as, k) == Append(AtPath(as, FileName(now), "overwritten"), NewArt(k))

recordingSampleRate == 44100
channels == 1
bitsPerSample == 16

\* binary.Write with binary.LittleEndian of a uint32 and of a uint16: the
\* bytes, least significant first.
LittleEndian32(v) == <<v[2] % 256, v[2] \div 256, v[1] % 256, v[1] \div 256>>

LittleEndian16(n) == <<n % 256, n \div 256>>

\* The uint32 that 4 bytes hold, least significant first.
LittleEndianUint32(m) == <<m[4] * 256 + m[3], m[2] * 256 + m[1]>>

\* The 44 bytes of the WavHeader that WriteWavHeader builds, field by field:
\* "RIFF", ChunkSize, "WAVE", "fmt ", Subchunk1Size, AudioFormat,
\* NumChannels, SampleRate, ByteRate, BlockAlign, BitsPerSample, "data",
\* Subchunk2Size.
WavHeader(dataSize) ==
  <<82, 73, 70, 70>> \o LittleEndian32(Uint32(Add(dataSize, Num(36))))
  \o <<87, 65, 86, 69>> \o <<102, 109, 116, 32>> \o LittleEndian32(Num(16))
  \o LittleEndian16(1) \o LittleEndian16(channels)
  \o LittleEndian32(Num(recordingSampleRate))
  \o LittleEndian32(Num((recordingSampleRate * channels * bitsPerSample) \div 8))
  \o LittleEndian16((channels * bitsPerSample) \div 8)
  \o LittleEndian16(bitsPerSample)
  \o <<100, 97, 116, 97>> \o LittleEndian32(dataSize)

\* A file opened for appending: a write goes to the end whatever the offset.
WriteAtEnd(bs, off, w) == bs \o w

\* file.Seek(off, 0) and a write of w: the bytes from off on are replaced,
\* a gap before off reads as zeros.
WriteAt(bs, off, w) ==
  [i \in 1..(IF Len(bs) > off + Len(w) THEN Len(bs) ELSE off + Len(w)) |->
     IF off < i /\ i <= off + Len(w) THEN w[i - off]
     ELSE IF i <= Len(bs) THEN bs[i] ELSE 0]

WriteWavHeader(as, f, dataSize) ==
  [as EXCEPT ![f].hdr = TRUE,
             ![f].chunkSize = Uint32(Add(dataSize, Num(36))),
             ![f].dataSize = dataSize,
             ![f].head = WriteAt(@, 0, WavHeader(dataSize))]

\* file.Write of the bytes bs at the end of the file.
Write(as, f, bs) ==
  [as EXCEPT ![f].dataLen = Add(@, StreamLen(bs)), ![f].data = @ \o bs]

\* UpdateWavHeader with the two offsets mixed up: the data size goes to
\* offset 4 and the total size to offset 40.
UpdateWavHeaderSwapped(as, f, dataSize) ==
  IF as[f].open
  THEN Called([as EXCEPT ![f].chunkSize = dataSize,
                         ![f].dataSize = Uint32(Add(dataSize, Num(36))),
                         ![f].head = WriteAt(WriteAt(@, 4, LittleEndian32(dataSize)), 40,
                                             LittleEndian32(Uint32(Add(dataSize, Num(36)))))],
              f, "patch")
  ELSE Called(as, f, "patchfail")

\* UpdateWavHeader that opens the file by its name when it is closed.
UpdateWavHeaderReopened(as, f, dataSize) ==
  Called([as EXCEPT ![f].chunkSize = Uint32(Add(dataSize, Num(36))),
                    ![f].dataSize = dataSize,
                    ![f].head = WriteAt(WriteAt(@, 4, LittleEndian32(Uint32(Add(dataSize, Num(36))))),
                                        40, LittleEndian32(dataSize))],
         f, "patch")

\* Seek and write on a closed file fail.
UpdateWavHeader(as, f, dataSize) ==
  IF as[f].open
  THEN Called([as EXCEPT ![f].chunkSize = Uint32(Add(dataSize, Num(36))),
                         ![f].dataSize = dataSize,
                         ![f].head = WriteAt(WriteAt(@, 4, LittleEndian32(Uint32(Add(dataSize, Num(36))))),
                                             40, LittleEndian32(dataSize))],
              f, "patch")
  ELSE Called(as, f, "patchfail")

Close(as, f) == Called([as EXCEPT ![f].open = FALSE], f, "close")

Remove(as, f) == Called(AtPath(as, Name(as[f]), "removed"), f, "remove")

Rename(as, f) == Called(AtPath(as, Name(as[f]), "incomplete"), f, "rename")

\* ffmpeg fails when its input is missing, and may fail (ok = FALSE)
\* when it is there; on success the original is removed.
ResampleForWhisper(as, f, ok) ==
  Called(IF ok THEN AtPath(as, Name(as[f]), "whisper") ELSE as, f, "resample")

Since(t) == now - t

\* The floor of one second with the comparison off by one.
IsShortOrEqual(d) == d <= Second

IsShort(d) == d < Second

finishCurrentFile(as, f, buffer, ok) ==
  IF f # 0
  THEN ResampleForWhisper(Close(UpdateWavHeader(as, f, Uint32(buffer)), f), f, ok)
  ELSE as

\* handleIncompleteTransmission without the floor: every file is kept.
handleIncompleteTransmissionKeepAll(as, f, startTime) == Rename(Close(as, f), f)

handleIncompleteTransmission(as, f, startTime) ==
  IF IsShort(Since(startTime)) THEN Remove(Close(as, f), f)
  ELSE Rename(Close(as, f), f)

\* The deferred close of the handler's file.
DeferredClose(as, f) == IF f # 0 THEN Close(as, f) ELSE as

\* -------------------------------------------------------------- ClientList
ClientListAdd(cl, id) == cl \cup {id}

\* ClientList.Remove that deletes nothing.
ClientListKeep(cl, id) == cl

ClientListRemove(cl, id) == cl \ {id}

\* --------------------------------------------------------- handleConnection
\* handleConnection returns: its first deferred function closes the
\* connection and removes the client from the list.
Return ==
  /\ pc' = "done"
  /\ connOpen' = FALSE
  /\ clientList' = ClientListRemove(clientList, clientID)
  /\ toPeer' = toPeer
  /\ UNCHANGED <<tasks, ap, scribe>>

\* handleConnection goes on to its next iteration.
Continue ==
  /\ pc' = "loop"
  /\ UNCHANGED <<clientList, connOpen, toPeer>>
  /\ UNCHANGED <<tasks, ap, scribe>>

marker == <<ByteAt(stream, 1), ByteAt(stream, 2), ByteAt(stream, 3), ByteAt(stream, 4)>>

prefix == BigEndianUint32(marker)

\* The prefix is read: what the handler's current file sees of it.
Noted(as, f) ==
  IF f # 0
  THEN [as EXCEPT ![f].frames =
          Append(@, [k |-> stream[1].k,
                     m |-> IF prefix = EndMarker THEN "end" ELSE "chunk",
                     late |-> now - as[f].t0 >= Second])]
  ELSE as

\* The end of an iteration: the handler returns if the context is done.
IterationEnd(as, f) ==
  IF ctxDone THEN Return /\ arts' = DeferredClose(as, f)
  ELSE Continue /\ arts' = as

ReadMarkerFails ==
  /\ pc = "loop"
  /\ peerClosed
  /\ ~Has(stream, Num(4))
  /\ arts' = DeferredClose(
       IF isReceivingTransmission /\ file # 0
       THEN handleIncompleteTransmission(arts, file, transmissionStartTime)
       ELSE arts, file)
  /\ stream' = <<>>
  /\ Return
  /\ UNCHANGED <<now, ctxDone, peerClosed, nSent, isReceivingTransmission,
                 transmissionBuffer, file, transmissionStartTime>>

StartRead ==
  /\ pc = "loop"
  /\ Has(stream, Num(4))
  /\ prefix = StartMarker
  /\ isReceivingTransmission' = TRUE
  /\ transmissionBuffer' = Num(0)
  /\ transmissionStartTime' = now
  /\ stream' = Drop(stream, Num(4))
  /\ UNCHANGED <<now, ctxDone, peerClosed, nSent>>

ReceiveStart ==
  /\ StartRead
  /\ file' = Len(arts) + 1
  /\ IterationEnd(WriteWavHeader(createWavFile(arts, stream[1].k), Len(arts) + 1, Num(0)),
                  Len(arts) + 1)

\* createWavFile returns an error: file is nil and the handler returns.
ReceiveStartCreateFails ==
  /\ StartRead
  /\ file' = 0
  /\ arts' = arts
  /\ Return

\* WriteWavHeader returns an error: the handler returns, closing the new file.
ReceiveStartHeaderFails ==
  /\ StartRead
  /\ file' = Len(arts) + 1
  /\ arts' = DeferredClose(createWavFile(arts, stream[1].k), Len(arts) + 1)
  /\ Return

ReceiveEnd ==
  /\ pc = "loop"
  /\ Has(stream, Num(4))
  /\ prefix = EndMarker
  /\ isReceivingTransmission' = FALSE
  /\ stream' = Drop(stream, Num(4))
  /\ IF IsShort(Since(transmissionStartTime))
     THEN /\ file' = file
          /\ IterationEnd(IF file # 0 THEN Remove(Close(Noted(arts, file), file), file)
                          ELSE arts, file)
     ELSE /\ file' = 0
          /\ \E ok \in BOOLEAN :
               IterationEnd(finishCurrentFile(Noted(arts, file), file,
                                              transmissionBuffer, ok), 0)
  /\ UNCHANGED <<now, ctxDone, peerClosed, nSent, transmissionBuffer,
                 transmissionStartTime>>

IsChunk == prefix # StartMarker /\ prefix # EndMarker

\* The chunk is read and appended; the write to the file may fail (wok = FALSE).
ReceiveChunk ==
  /\ pc = "loop"
  /\ Has(stream, Num(4))
  /\ IsChunk
  /\ isReceivingTransmission
  /\ Has(stream, Add(Num(4), prefix))
  /\ stream' = Drop(stream, Add(Num(4), prefix))
  /\ transmissionBuffer' = Add(transmissionBuffer, prefix)
  /\ \E wok \in BOOLEAN :
       LET got == IF file # 0
                  THEN [Noted(arts, file) EXCEPT ![file].received = Add(@, prefix)]
                  ELSE arts
       IN IterationEnd(IF file # 0 /\ arts[file].open /\ wok
                       THEN Write(got, file, Take(Drop(stream, Num(4)), prefix))
                       ELSE got, file)
  /\ UNCHANGED <<now, ctxDone, peerClosed, nSent, isReceivingTransmission, file,
                 transmissionStartTime>>

\* io.ReadFull of the chunk fails: the stream ended inside the payload.
ReceiveChunkFails ==
  /\ pc = "loop"
  /\ Has(stream, Num(4))
  /\ IsChunk
  /\ isReceivingTransmission
  /\ ~Has(stream, Add(Num(4), prefix))
  /\ peerClosed
  /\ stream' = <<>>
  /\ arts' = DeferredClose(Noted(arts, file), file)
  /\ Return
  /\ UNCHANGED <<now, ctxDone, peerClosed, nSent, isReceivingTransmission,
                 transmissionBuffer, file, transmissionStartTime>>

\* A prefix that is no marker while no transmission is being received:
\* no branch of the loop is taken, and only the 4 bytes were read.
SkipPrefix ==
  /\ pc = "loop"
  /\ Has(stream, Num(4))
  /\ IsChunk
  /\ ~isReceivingTransmission
  /\ stream' = Drop(stream, Num(4))
  /\ IterationEnd(Noted(arts, file), file)
  /\ UNCHANGED <<now, ctxDone, peerClosed, nSent, isReceivingTransmission,
                 transmissionBuffer, file, transmissionStartTime>>

\* ----------------------------------------------------------------- the peer
\* The handler waits in a read: for a prefix, or for the rest of a chunk.
HandlerWaits ==
  IF Has(stream, Num(4))
  THEN IsChunk /\ isReceivingTransmission /\ ~Has(stream, Add(Num(4), prefix))
  ELSE TRUE

PeerCanSend ==
  /\ pc = "loop"
  /\ ~peerClosed
  /\ nSent < MaxFrames
  /\ HandlerWaits

Sent(bytes) ==
  /\ stream' = stream \o bytes
  /\ nSent' = nSent + 1
  /\ UNCHANGED <<now, ctxDone, pc, isReceivingTransmission, transmissionBuffer,
                 file, transmissionStartTime, arts, clientList, connOpen, toPeer>>
  /\ UNCHANGED <<tasks, ap, scribe>>

sendStartTransmission ==
  /\ PeerCanSend
  /\ Sent(Bytes("S", <<255, 255, 255, 255>>))
  /\ UNCHANGED peerClosed

sendEndTransmission ==
  /\ PeerCanSend
  /\ Sent(Bytes("E", <<0, 0, 0, 0>>))
  /\ UNCHANGED peerClosed

\* A chunk of two samples, each -1.
sendAudioChunk ==
  /\ PeerCanSend
  /\ Sent(Bytes("P", PutUint32(Num(4))) \o <<Run("x", 255, Num(4))>>)
  /\ UNCHANGED peerClosed

\* The largest chunk the framing leaves to a peer whose sizes are multiples
\* of 4, all samples 0; sent inside an utterance only.
LargeChunk == BigEndianUint32(<<255, 255, 255, 252>>)

sendLargeAudioChunk ==
  /\ PeerCanSend
  /\ isReceivingTransmission
  /\ stream = <<>>
  /\ Sent(Bytes("P", PutUint32(LargeChunk)) \o <<Run("x", 0, LargeChunk)>>)
  /\ UNCHANGED peerClosed

\* The peer dies inside sendAudioChunk: the size and half the chunk are out.
sendAudioChunkCut ==
  /\ PeerCanSend
  /\ Sent(Bytes("T", PutUint32(Num(4))) \o <<Run("x", 255, Num(2))>>)
  /\ peerClosed' = TRUE

PeerClose ==
  /\ pc \in {"accept", "loop"}
  /\ ~peerClosed
  /\ peerClosed' = TRUE
  /\ UNCHANGED <<now, ctxDone, stream, nSent, pc, isReceivingTransmission,
                 transmissionBuffer, file, transmissionStartTime, arts,
                 clientList, connOpen, toPeer>>
  /\ UNCHANGED <<tasks, ap, scribe>>

Cancel ==
  /\ pc = "loop"
  /\ ~ctxDone
  /\ ctxDone' = TRUE
  /\ UNCHANGED <<now, stream, peerClosed, nSent, pc, isReceivingTransmission,
                 transmissionBuffer, file, transmissionStartTime, arts,
                 clientList, connOpen, toPeer>>
  /\ UNCHANGED <<tasks, ap, scribe>>

Tick ==
  /\ pc = "loop"
  /\ now < MaxTime
  /\ now' = now + 1
  /\ UNCHANGED <<ctxDone, stream, peerClosed, nSent, pc, isReceivingTransmission,
                 transmissionBuffer, file, transmissionStartTime, arts,
                 clientList, connOpen, toPeer>>
  /\ UNCHANGED <<tasks, ap, scribe>>

\* The specification of one connection: the handler, its peer, the clock
\* and the root context.
Next ==
  \/ Tick
  \/ Cancel
  \/ sendStartTransmission
  \/ sendEndTransmission
  \/ sendAudioChunk
  \/ sendLargeAudioChunk
  \/ sendAudioChunkCut
  \/ PeerClose
  \/ ReadMarkerFails
  \/ ReceiveStart
  \/ ReceiveStartCreateFails
  \/ ReceiveStartHeaderFails
  \/ ReceiveEnd
  \/ ReceiveChunk
  \/ ReceiveChunkFails
  \/ SkipPrefix

Spec == Init /\ [][Next]_vars

\* The connection around midnight: the clock starts a second before it and
\* runs until half a second after it.
InitMidnight == EstablishedAt(Midnight - Second) /\ Started(Quiet)

MidnightPasses ==
  /\ pc = "loop"
  /\ now < Midnight + 1
  /\ now' = now + 1
  /\ UNCHANGED <<ctxDone, stream, peerClosed, nSent, pc, isReceivingTransmission,
                 transmissionBuffer, file, transmissionStartTime, arts,
                 clientList, connOpen, toPeer>>
  /\ UNCHANGED <<tasks, ap, scribe>>

NextMidnight ==
  \/ MidnightPasses
  \/ Cancel
  \/ sendStartTransmission
  \/ sendEndTransmission
  \/ sendAudioChunk
  \/ sendLargeAudioChunk
  \/ sendAudioChunkCut
  \/ PeerClose
  \/ ReadMarkerFails
  \/ ReceiveStart
  \/ ReceiveStartCreateFails
  \/ ReceiveStartHeaderFails
  \/ ReceiveEnd
  \/ ReceiveChunk
  \/ ReceiveChunkFails
  \/ SkipPrefix

SpecMidnight == InitMidnight /\ [][NextMidnight]_vars

\* ------------------------------------------------------- the capture client
silenceThreshold == 1 * Second

framesPerBuffer == 1024

\* The lengths of the buffers the audio stream hands to its callback: a full
\* buffer, and a short one.
ChunkLens == {1, framesPerBuffer * channels}

\* What sendStartTransmission and sendEndTransmission write.
StartBytes == Bytes("S", <<255, 255, 255, 255>>)
EndBytes == Bytes("E", <<0, 0, 0, 0>>)

\* The two writes of sendAudioChunk for a chunk of len samples, each sample
\* two bytes: the size, most significant byte first, and the samples.
SizeBytes(len) == Bytes("P", PutUint32(Uint32(Num(len * 2))))
SampleBytes(len) == <<Run("x", 255, Num(len * 2))>>

\* Every chunk that is no speech is sent, also outside a transmission.
PauseAny(isSpeech) == ~isSpeech

\* The second branch of processAudioChunk: no speech, while transmitting.
Pause(isSpeech) == ~isSpeech /\ ap.isTransmitting

\* The writes processAudioChunk attempts for a chunk, in order.  mid: the
\* context is cancelled after the select of processAudioChunk and before
\* the select of sendAudioChunk, which then writes nothing.
Attempts(len, isSpeech, mid) ==
  (IF isSpeech /\ ~ap.isTransmitting THEN <<StartBytes>> ELSE <<>>)
  \o (IF (isSpeech \/ Pause(isSpeech)) /\ ~mid
      THEN <<SizeBytes(len), SampleBytes(len)>> ELSE <<>>)
  \o (IF Pause(isSpeech) /\ Since(ap.lastNoiseTime) > silenceThreshold
      THEN <<EndBytes>> ELSE <<>>)

RECURSIVE Concat(_)
Concat(ws) == IF ws = <<>> THEN <<>> ELSE ws[1] \o Concat(Tail(ws))

\* The callback of the audio stream with a chunk.  n of the writes succeed;
\* a write that fails, fails with a closed connection (closed) or with
\* another error, and every later write fails too.  A closed connection
\* makes processAudioChunk signal connClosed and return at once; another
\* error and the error of the context are logged.
processAudioChunk ==
  /\ pc = "loop"
  /\ ~ap.done
  /\ nSent < MaxFrames
  /\ \E len \in ChunkLens, isSpeech \in BOOLEAN, mid \in BOOLEAN, closed \in BOOLEAN :
       LET ws == Attempts(len, isSpeech, mid)
           sends == isSpeech \/ Pause(isSpeech)
       IN \E n \in 0..Len(ws) :
            LET failed == n < Len(ws)
                chunkFailed == sends /\ ~mid /\ n < Len(ws) - (IF EndBytes = ws[Len(ws)] THEN 1 ELSE 0)
                returns == chunkFailed /\ closed
            IN /\ ap.broken => n = 0
               /\ stream' = stream \o Concat(SubSeq(ws, 1, n))
               /\ nSent' = nSent + 1
               /\ ap' = [ap EXCEPT
                    !.isTransmitting =
                       IF isSpeech THEN TRUE
                       ELSE IF Pause(isSpeech) /\ ~returns
                               /\ Since(ap.lastNoiseTime) > silenceThreshold THEN FALSE
                       ELSE @,
                    !.lastNoiseTime = IF isSpeech THEN now ELSE @,
                    !.done = @ \/ mid,
                    !.broken = @ \/ failed,
                    !.lost = @ \/ returns]
  /\ UNCHANGED <<now, ctxDone, peerClosed, pc, isReceivingTransmission,
                 transmissionBuffer, file, transmissionStartTime, arts, clientList,
                 connOpen, toPeer, tasks>>
  /\ UNCHANGED scribe

\* The goroutine of Launch that waits for connClosed cancels the context.
ConnectionLost ==
  /\ ap.lost
  /\ ~ap.done
  /\ ap' = [ap EXCEPT !.done = TRUE]
  /\ UNCHANGED <<now, ctxDone, stream, peerClosed, nSent, pc, isReceivingTransmission,
                 transmissionBuffer, file, transmissionStartTime, arts, clientList,
                 connOpen, toPeer, tasks>>
  /\ UNCHANGED scribe

\* The capture client alone, with what it wrote kept in stream.
NextClient ==
  \/ Tick
  \/ processAudioChunk
  \/ ConnectionLost

SpecClient == Init /\ [][NextClient]_vars

\* ------------------------------------------------------- handleNewConnection
\* The configured token, as bytes.
token == <<1, 2>>

\* What a peer may write as its token: the configured one, one of the same
\* length that differs, a shorter one, and a longer one that begins with
\* the configured one.
Secrets == {<<1, 2>>, <<1, 3>>, <<1>>, <<1, 2, 3>>}

\* The peer writes its token and waits for its id.
SendToken ==
  /\ pc = "accept"
  /\ ~peerClosed
  /\ stream = <<>>
  /\ \E s \in Secrets : stream' = Bytes("x", s)
  /\ UNCHANGED <<now, ctxDone, peerClosed, nSent, pc, isReceivingTransmission,
                 transmissionBuffer, file, transmissionStartTime, arts,
                 clientList, connOpen, toPeer>>
  /\ UNCHANGED <<tasks, ap, scribe>>

\* What io.ReadFull puts in tokenBuffer: len(token) bytes of the stream.
tokenBuffer == [i \in 1..Len(token) |-> ByteAt(stream, i)]

\* handleNewConnection returns before it made a client: its deferred
\* function closes the connection.
Reject ==
  /\ pc' = "rejected"
  /\ connOpen' = FALSE
  /\ UNCHANGED <<now, ctxDone, peerClosed, nSent, isReceivingTransmission,
                 transmissionBuffer, file, transmissionStartTime, arts,
                 clientList, toPeer>>
  /\ UNCHANGED <<tasks, ap, scribe>>

\* io.ReadFull of the token fails: the peer closed before len(token) bytes.
TokenReadFails ==
  /\ pc = "accept"
  /\ peerClosed
  /\ ~Has(stream, Num(Len(token)))
  /\ stream' = <<>>
  /\ Reject

TokenInvalid ==
  /\ pc = "accept"
  /\ Has(stream, Num(Len(token)))
  /\ tokenBuffer # token
  /\ stream' = Drop(stream, Num(Len(token)))
  /\ Reject

\* The token is the configured one: the client is added to the list and
\* handleConnection sends it its id and enters its loop.
TokenValid ==
  /\ pc = "accept"
  /\ Has(stream, Num(Len(token)))
  /\ tokenBuffer = token
  /\ stream' = Drop(stream, Num(Len(token)))
  /\ clientList' = ClientListAdd(clientList, clientID)
  /\ toPeer' = Append(toPeer, clientID)
  /\ pc' = "loop"
  /\ UNCHANGED <<now, ctxDone, peerClosed, nSent, isReceivingTransmission,
                 transmissionBuffer, file, transmissionStartTime, arts, connOpen>>
  /\ UNCHANGED <<tasks, ap, scribe>>

\* The same, but sendClientID returns an error: handleConnection returns,
\* and its deferred function removes the client it was called with.
SendClientIDFails ==
  /\ pc = "accept"
  /\ Has(stream, Num(Len(token)))
  /\ tokenBuffer = token
  /\ stream' = Drop(stream, Num(Len(token)))
  /\ clientList' = ClientListRemove(ClientListAdd(clientList, clientID), clientID)
  /\ connOpen' = FALSE
  /\ pc' = "done"
  /\ UNCHANGED <<now, ctxDone, peerClosed, nSent, isReceivingTransmission,
                 transmissionBuffer, file, transmissionStartTime, arts, toPeer>>
  /\ UNCHANGED <<tasks, ap, scribe>>

\* The specification of one connection from the moment it is accepted.
NextConn ==
  \/ SendToken
  \/ TokenReadFails
  \/ TokenInvalid
  \/ TokenValid
  \/ SendClientIDFails
  \/ Next

SpecConn == Accepted /\ [][NextConn]_vars

\* ------------------------------------------------------------ the watcher
\* fsnotify.Create; the Op of an event is a set of such flags.
Create == {"Create"}

\* The capacity of s.queue.
QueueCapacity == 100

\* select with a default on a send to the queue, the default never taken.
OfferAlways(q, job) == Append(q, job)

\* select { case s.queue <- job: default: }
Offer(q, job) == IF Len(q) < QueueCapacity THEN Append(q, job) ELSE q

\* handleFSEvent returns with nothing more than the watches w.
Watch(w, h) ==
  /\ watched' = w
  /\ hist' = h
  /\ UNCHANGED <<queue, crashed, clients, heap>>

\* watcher.Add may fail (ok = FALSE); otherwise a new, empty
\* ClientTranscriptions is stored for the id, whatever was stored before.
handleNewClient(id, fullPath, w, h, ok) ==
  IF ok
  THEN /\ watched' = w \cup {fullPath}
       /\ heap' = Append(heap, <<>>)
       /\ clients' = [clients EXCEPT ![id] = Len(heap) + 1]
       /\ hist' = [h EXCEPT !.replaced = @ + (IF clients[id] # 0 THEN 1 ELSE 0)]
       /\ UNCHANGED <<queue, crashed>>
  ELSE Watch(w, h)

\* A send on the closed queue panics.
handleNewAudioFile(id, filePath, w, h) ==
  LET job == [FilePath |-> filePath, ClientID |-> id, Timestamp |-> now]
      q == Offer(queue, job)
      a == [h EXCEPT !.attempts = @ + 1]
  IN /\ watched' = w
     /\ UNCHANGED <<clients, heap>>
     /\ IF stop # "running"
        THEN /\ crashed' = TRUE
             /\ queue' = queue
             /\ hist' = a
        ELSE /\ crashed' = crashed
             /\ queue' = q
             /\ hist' = IF q # queue
                        THEN [a EXCEPT !.accepted = @ (+) SetToBag({job})]
                        ELSE [a EXCEPT !.dropped = @ + 1]

handleFSEvent(event, ok) ==
  LET h == [hist EXCEPT !.events = @ + 1]
      parts == Split(Rel(RecordingsDir, event.Name))
      w == IF event.IsDir /\ ok THEN watched \cup {event.Name} ELSE watched
  IN IF HasSuffix(event.Name, <<".tmp">>) \/ event.Op # Create THEN Watch(watched, h)
     ELSE IF Len(parts) < 2 THEN Watch(watched, h)
     ELSE IF parts[1] # getCurrentDateDir THEN Watch(watched, h)
     ELSE IF Len(parts) = 2
          THEN IF Parse(parts[2])
               THEN handleNewClient(parts[2][1], event.Name, w, h, ok)
               ELSE Watch(w, h)
     ELSE IF /\ Len(parts) = 3
             /\ Parse(parts[2])
             /\ HasSuffix(parts[3], <<".wav">>)
             /\ Contains(parts[3], <<"_whisper">>)
          THEN handleNewAudioFile(parts[2][1], event.Name, w,
                                  [h EXCEPT !.offered = @ \cup {event}])
     ELSE Watch(w, h)

\* An iteration of the loop of watchFiles that takes an event.
WatchEvent ==
  /\ ~crashed
  /\ stop # "stopped"
  /\ tasks.watchFiles = "running"
  /\ hist.events < env.events
  /\ \E event \in env.shapes, ok \in BOOLEAN : handleFSEvent(event, ok)
  /\ UNCHANGED <<stop, wk, subscribers, arrays, conns, env, ctxDone>>
  /\ UNCHANGED ingest

\* Stop closes the queue and waits for the workers.
Stop ==
  /\ ~crashed
  /\ stop = "running"
  /\ stop' = "closing"
  /\ UNCHANGED <<queue, crashed, clients, heap, wk, subscribers, arrays, conns,
                 watched, env, hist, ctxDone>>
  /\ UNCHANGED ingest

\* The workers have returned: Stop shuts the server and closes the watcher.
StopReturns ==
  /\ ~crashed
  /\ stop = "closing"
  /\ \A w \in 1..Workers : wk[w].pc = "returned"
  /\ stop' = "stopped"
  /\ UNCHANGED <<queue, crashed, clients, heap, wk, subscribers, arrays, conns,
                 watched, env, hist, ctxDone>>
  /\ UNCHANGED ingest

\* ------------------------------------------------------------ the workers
\* A receive that leaves the job in the queue.
Peek(q) == q

\* The queue after the receive of its first job.
Dequeue(q) == Tail(q)

\* The worker takes a job from the queue and calls processJob with it.  A
\* closed queue still hands out the jobs in its buffer, and a worker whose
\* context is done may still be given a job by its select.
Receive(w) ==
  /\ ~crashed
  /\ wk[w].pc = "idle"
  /\ queue # <<>>
  /\ hist.received < env.receives
  /\ queue' = Dequeue(queue)
  /\ wk' = [wk EXCEPT ![w] = [Idle EXCEPT !.pc = "run", !.job = Head(queue)]]
  /\ hist' = [hist EXCEPT !.received = @ + 1,
                          !.passed = Append(@, [w |-> w, job |-> Head(queue)])]
  /\ UNCHANGED <<stop, crashed, clients, heap, subscribers, arrays, conns,
                 watched, env, ctxDone>>
  /\ UNCHANGED ingest

\* The worker returns: its context is done, or the queue is closed and empty.
WorkerReturns(w) ==
  /\ ~crashed
  /\ wk[w].pc = "idle"
  /\ ctxDone \/ (stop # "running" /\ queue = <<>>)
  /\ wk' = [wk EXCEPT ![w].pc = "returned"]
  /\ UNCHANGED <<queue, stop, crashed, clients, heap, subscribers, arrays, conns,
                 watched, env, hist, ctxDone>>
  /\ UNCHANGED ingest

\* The outcomes of cmd.Output: an exit error that reports a missing input
\* file, another error, and standard output, a sequence of lines.
Outputs ==
  {[err |-> "input file not found", out |-> <<>>],
   [err |-> "exit status 1", out |-> <<<<"hello">>>>],
   [err |-> "", out |-> <<<<>>, <<" ", "[BLANK_AUDIO]">>, <<" ">>>>],
   [err |-> "", out |-> <<<<" ", "[BLANK_AUDIO]">>, <<" ", "hello", " ">>, <<>>,
                          <<"world">>>>]}

\* strings.TrimSpace.
RECURSIVE TrimSpace(_)
TrimSpace(str) ==
  IF str = <<>> THEN str
  ELSE IF str[1] = " " THEN TrimSpace(Tail(str))
  ELSE IF str[Len(str)] = " " THEN TrimSpace(SubSeq(str, 1, Len(str) - 1))
  ELSE str

\* extractText: the lines that are not empty and hold no blank-audio
\* marker, trimmed, with one space between them.
RECURSIVE extractText(_)
extractText(lines) ==
  IF lines = <<>> THEN <<>>
  ELSE LET rest == extractText(Tail(lines))
       IN IF TrimSpace(lines[1]) = <<>> \/ Contains(lines[1], <<"[BLANK_AUDIO]">>)
          THEN rest
          ELSE IF rest = <<>> THEN TrimSpace(lines[1])
          ELSE TrimSpace(lines[1]) \o <<" ">> \o rest

\* The outcomes in which the recognizer heard speech.
Speech == {o \in Outputs : o.err = "" /\ extractText(o.out) # <<>>}

\* What processJob returns when the recognizer failed or gave no text.
Failed == "whisper execution failed"
ReturnsFailed(o) == Failed
Returns(o) ==
  IF o.err = "" \/ o.err = "input file not found" THEN "nil" ELSE Failed

\* processJob up to the read of transcriptions.Messages, for an outcome of
\* the recognizer: after an error, or without text, processJob returns;
\* with text, the ClientTranscriptions of the id is loaded, or a new one
\* stored when the id has none, and its Messages are read.
processJob(w, o) ==
  /\ ~crashed
  /\ wk[w].pc = "run"
  /\   LET job == wk[w].job
           text == extractText(o.out)
           t == IF clients[job.ClientID] # 0 THEN clients[job.ClientID]
                ELSE Len(heap) + 1
           hp == IF clients[job.ClientID] # 0 THEN heap ELSE Append(heap, <<>>)
           msg == [Timestamp |-> job.Timestamp, Text |-> text,
                   AudioFile |-> Base(job.FilePath), Confidence |-> 1]
       IN IF o.err # "" \/ text = <<>>
          THEN /\ wk' = [wk EXCEPT ![w] = Idle]
               /\ hist' = [hist EXCEPT !.skip = [err |-> o.err, ret |-> Returns(o)]]
               /\ UNCHANGED <<clients, heap>>
          ELSE /\ heap' = hp
               /\ clients' = [clients EXCEPT ![job.ClientID] = t]
               /\ wk' = [wk EXCEPT ![w].pc = "append", ![w].t = t,
                                   ![w].m = hp[t], ![w].msg = msg]
               /\ hist' = hist
  /\ UNCHANGED <<queue, stop, crashed, subscribers, arrays, conns, watched, env,
                 ctxDone>>
  /\ UNCHANGED ingest

\* The recognizer runs and processJob goes on with its outcome.
Transcribe(w) == \E o \in env.outputs : processJob(w, o)

\* The write of transcriptions.Messages and the Store of the pointer.
AppendMessage(w) ==
  /\ ~crashed
  /\ wk[w].pc = "append"
  /\ heap' = [heap EXCEPT ![wk[w].t] = Append(wk[w].m, wk[w].msg)]
  /\ clients' = [clients EXCEPT ![wk[w].job.ClientID] = wk[w].t]
  /\ wk' = [wk EXCEPT ![w].pc = "publish", ![w].m = <<>>]
  /\ hist' = [hist EXCEPT !.stored =
                 @ (+) SetToBag({[ClientID |-> wk[w].job.ClientID, msg |-> wk[w].msg]})]
  /\ UNCHANGED <<queue, stop, crashed, subscribers, arrays, conns, watched, env,
                 ctxDone>>
  /\ UNCHANGED ingest

\* A publish that ranges over the subscribers of any endpoint.
PublishLoadAny(w) ==
  /\ ~crashed
  /\ wk[w].pc = "publish"
  /\ \E u \in UUIDs :
       LET hdr == subscribers[u]
       IN wk' = [wk EXCEPT ![w] =
                   IF hdr.ok /\ hdr.len > 0
                   THEN [@ EXCEPT !.pc = "send", !.hdr = hdr, !.i = 1,
                                  !.at = Elements(arrays, hdr)]
                   ELSE Idle]
  /\ UNCHANGED <<queue, stop, crashed, clients, heap, subscribers, arrays, conns,
                 watched, env, hist, ctxDone>>
  /\ UNCHANGED ingest

\* s.subscribers.Load: without an entry, or with an empty slice, processJob
\* returns; otherwise the range loop starts on the slice that was loaded.
PublishLoad(w) ==
  /\ ~crashed
  /\ wk[w].pc = "publish"
  /\ LET hdr == subscribers[wk[w].job.ClientID]
     IN wk' = [wk EXCEPT ![w] =
                 IF hdr.ok /\ hdr.len > 0
                 THEN [@ EXCEPT !.pc = "send", !.hdr = hdr, !.i = 1,
                                !.at = Elements(arrays, hdr)]
                 ELSE Idle]
  /\ UNCHANGED <<queue, stop, crashed, clients, heap, subscribers, arrays, conns,
                 watched, env, hist, ctxDone>>
  /\ UNCHANGED ingest

\* ----------------------------------------------------------- the hub
\* The buffer of the send channel of a wsConnection.
SendCapacity == 256

\* len(ch): the envelopes in the buffer.
RECURSIVE ChanLen(_)
ChanLen(ch) == IF ch = <<>> THEN 0 ELSE ch[1].n + ChanLen(Tail(ch))

\* The buffer after a send, and after a receive.
Enqueue(ch, e) ==
  IF ch # <<>> /\ ch[Len(ch)].e = e
  THEN [ch EXCEPT ![Len(ch)].n = @ + 1]
  ELSE Append(ch, [e |-> e, n |-> 1])
Pop(ch) == IF ch[1].n = 1 THEN Tail(ch) ELSE [ch EXCEPT ![1].n = @ - 1]

\* A receive that hands out the envelope sent last.
RecvLast(ch) == ch[Len(ch)].e

\* message := <-c.send: the envelope that has been in the buffer longest.
Recv(ch) == ch[1].e

\* A send that takes the envelope whatever the buffer holds.
SendAlways(ch, e) == Enqueue(ch, e)

\* select { case conn.send <- data: default: }: the envelope goes into the
\* buffer when it has room and is dropped otherwise.
TrySend(ch, e) == IF ChanLen(ch) < SendCapacity THEN Enqueue(ch, e) ELSE ch

\* An envelope that carries the time of the publish.
wsMsgNow(job, msg) ==
  [Type |-> "transcription", ClientID |-> job.ClientID,
   Timestamp |-> now, Payload |-> msg]

\* The envelope processJob marshals for a message.
wsMsg(job, msg) ==
  [Type |-> "transcription", ClientID |-> job.ClientID,
   Timestamp |-> job.Timestamp, Payload |-> msg]

\* The status codes of the answers.
StatusOK == 200
StatusSwitchingProtocols == 101
StatusBadRequest == 400
StatusNotFound == 404

\* http.Error: the answer with a status and a line of text.
Error(handler, id, status, text) ==
  [handler |-> handler, id |-> id, status |-> status, body |-> text]

\* handleWebSocket up to the LoadOrStore of registerSubscriber: the id
\* must parse and the upgrade succeed; then the wsConnection is made and
\* the slice of the id is loaded, an empty one being stored when the id
\* has none.  An id that does not parse is answered with status 400; a
\* failed upgrade is answered by the upgrader, with an error status too.
handleWebSocket ==
  /\ ~crashed
  /\ stop # "stopped"
  /\ hist.made < env.conns
  /\ \E id \in Keys, upgraded \in BOOLEAN :
       LET c == hist.made + 1
       IN IF ~Parse(<<id>>)
          THEN /\ hist' = [hist EXCEPT !.resp =
                             Error("ws", id, StatusBadRequest, "Invalid client ID")]
               /\ UNCHANGED <<subscribers, conns>>
          ELSE IF ~upgraded
          THEN /\ hist' = [hist EXCEPT !.resp =
                             Error("ws", id, StatusBadRequest, "upgrade failed")]
               /\ UNCHANGED <<subscribers, conns>>
          ELSE LET hdr == IF subscribers[id].ok THEN subscribers[id] ELSE EmptySlice
               IN /\ subscribers' = [subscribers EXCEPT ![id] = hdr]
                  /\ conns' = [conns EXCEPT ![c] =
                                 [NoConn EXCEPT !.pc = "register", !.clientID = id,
                                                !.hdr = hdr]]
                  /\ hist' = [hist EXCEPT !.made = @ + 1,
                                          !.resp = [handler |-> "ws", id |-> id,
                                                    status |-> StatusSwitchingProtocols,
                                                    body |-> <<>>]]
  /\ UNCHANGED <<queue, stop, crashed, clients, heap, wk, arrays, watched, env,
                 ctxDone>>
  /\ UNCHANGED ingest

\* The rest of registerSubscriber, and the start of the two pumps: the
\* wsConnection is appended to the slice that was loaded and the result
\* stored.
registerSubscriber(c) ==
  /\ ~crashed
  /\ conns[c].pc = "register"
  /\ LET r == AppendSlice(arrays, conns[c].hdr, c)
     IN /\ arrays' = r.arrays
        /\ subscribers' = [subscribers EXCEPT ![conns[c].clientID] = r.hdr]
  /\ conns' = [conns EXCEPT ![c].pc = "open", ![c].hdr = <<>>, ![c].wp = "run"]
  /\ UNCHANGED <<queue, stop, crashed, clients, heap, wk, watched, env, hist,
                 ctxDone>>
  /\ UNCHANGED ingest

\* readPump: ReadMessage fails and the deferred unregisterSubscriber
\* loads the slice of the id; without an entry it returns and the
\* connection is closed.
readPump(c) ==
  /\ ~crashed
  /\ conns[c].pc = "open"
  /\ hist.closes < env.closes
  /\ LET hdr == subscribers[conns[c].clientID]
     IN conns' = [conns EXCEPT ![c] =
                    IF hdr.ok THEN [@ EXCEPT !.pc = "unregister", !.hdr = hdr]
                    ELSE [@ EXCEPT !.pc = "closed"]]
  /\ hist' = [hist EXCEPT !.closes = @ + 1]
  /\ UNCHANGED <<queue, stop, crashed, clients, heap, wk, subscribers, arrays,
                 watched, env, ctxDone>>
  /\ UNCHANGED ingest

\* The rest of unregisterSubscriber: the wsConnection is taken out of the
\* slice that was loaded, in its backing array, and the entry of the id
\* deleted when nothing is left, stored otherwise; the connection is closed.
unregisterSubscriber(c) ==
  /\ ~crashed
  /\ conns[c].pc = "unregister"
  /\ LET hdr == conns[c].hdr
         at == {k \in 1..hdr.len : arrays[hdr.arr][k] = c}
         r == IF at = {} THEN [arrays |-> arrays, hdr |-> hdr]
              ELSE RemoveAt(arrays, hdr, CHOOSE k \in at : \A l \in at : k <= l)
     IN /\ arrays' = r.arrays
        /\ subscribers' = [subscribers EXCEPT ![conns[c].clientID] =
                             IF r.hdr.len = 0 THEN NoSlice ELSE r.hdr]
  /\ conns' = [conns EXCEPT ![c].pc = "closed", ![c].hdr = <<>>]
  /\ UNCHANGED <<queue, stop, crashed, clients, heap, wk, watched, env, hist,
                 ctxDone>>
  /\ UNCHANGED ingest

\* writePump takes an envelope from the channel and writes it to the
\* connection; it returns when the write fails, as it does on a
\* connection that was closed.
writePump(c) ==
  /\ ~crashed
  /\ conns[c].wp = "run"
  /\ conns[c].send # <<>>
  /\ hist.writes < env.writes
  /\ \E ok \in BOOLEAN :
       conns' = [conns EXCEPT ![c].send = Pop(@),
                              ![c].out = IF ok /\ conns[c].pc # "closed"
                                         THEN Enqueue(@, Recv(conns[c].send)) ELSE @,
                              ![c].wp = IF ok /\ conns[c].pc # "closed"
                                        THEN "run" ELSE "returned"]
  /\ hist' = [hist EXCEPT !.writes = @ + 1]
  /\ UNCHANGED <<queue, stop, crashed, clients, heap, wk, subscribers, arrays,
                 watched, env, ctxDone>>
  /\ UNCHANGED ingest

\* One round of the range loop of the publish in processJob: the
\* wsConnection at the index is read from the backing array of the slice
\* that was loaded, and the envelope is sent to it without waiting.
PublishSend(w) ==
  /\ ~crashed
  /\ wk[w].pc = "send"
  /\ LET c == arrays[wk[w].hdr.arr][wk[w].i]
         data == wsMsg(wk[w].job, wk[w].msg)
     IN /\ conns' = [conns EXCEPT ![c].send = TrySend(@, data),
                                   ![c].acc = IF TrySend(conns[c].send, data) # conns[c].send
                                              THEN Enqueue(@, data) ELSE @]
        /\ wk' = [wk EXCEPT ![w] =
                    IF wk[w].i = wk[w].hdr.len THEN Idle
                    ELSE [@ EXCEPT !.i = @ + 1, !.seen = @ \cup {c}]]
  /\ UNCHANGED <<queue, stop, crashed, clients, heap, subscribers, arrays,
                 watched, env, hist, ctxDone>>
  /\ UNCHANGED ingest

\* ------------------------------------------------------- the requests
\* The ids s.clients holds.
StoredAll == UUIDs
Stored == {u \in UUIDs : clients[u] # 0}

\* No message at all.
NoMessage == <<>>

\* TranscriptionMessage{}: the message with nothing in it.
ZeroMessage == [Timestamp |-> 0, Text |-> <<>>, AudioFile |-> <<>>, Confidence |-> 0]

\* A scan from the head: the first index at or after i, 0 without one.
RECURSIVE ScanFromHead(_, _)
ScanFromHead(m, i) ==
  IF i = 0 THEN 0
  ELSE IF Format(m[Len(m) + 1 - i].Timestamp) = getCurrentDateDir THEN Len(m) + 1 - i
  ELSE ScanFromHead(m, i - 1)

\* for i := len(Messages) - 1; i >= 0; i--: the index of the first message
\* of the current day at or below i, 0 without one.
RECURSIVE Scan(_, _)
Scan(m, i) ==
  IF i = 0 THEN 0
  ELSE IF Format(m[i].Timestamp) = getCurrentDateDir THEN i
  ELSE Scan(m, i - 1)

\* handleGetClient: not found for an id without an entry and for a log
\* without a message of the current day, otherwise the message the scan
\* from the tail finds.
handleGetClient ==
  /\ ~crashed
  /\ stop # "stopped"
  /\ \E id \in Keys :
       hist' = [hist EXCEPT !.resp =
         IF id \notin Stored
         THEN Error("get", id, StatusNotFound, "Client not found")
         ELSE LET m == heap[clients[id]]
                  i == Scan(m, Len(m))
              IN IF i = 0
                 THEN Error("get", id, StatusNotFound, "No messages for today")
                 ELSE [handler |-> "get", id |-> id, status |-> StatusOK,
                       body |-> m[i]]]
  /\ UNCHANGED <<queue, stop, crashed, clients, heap, wk, subscribers, arrays,
                 conns, watched, env, ctxDone>>
  /\ UNCHANGED ingest

\* handleListClients: for every id in s.clients the empty message, replaced
\* by the message the scan from the tail finds when it finds one.
handleListClients ==
  /\ ~crashed
  /\ stop # "stopped"
  /\ hist' = [hist EXCEPT !.resp =
       [handler |-> "list", id |-> "", status |-> StatusOK,
        body |-> [u \in Stored |->
                   LET m == heap[clients[u]]
                       i == Scan(m, Len(m))
                   IN IF i = 0 THEN ZeroMessage ELSE m[i]]]]
  /\ UNCHANGED <<queue, stop, crashed, clients, heap, wk, subscribers, arrays,
                 conns, watched, env, ctxDone>>
  /\ UNCHANGED ingest

\* ------------------------------------------------- the recordings tree
\* An event of the watcher for the path below the recordings directory.
Event(path, op, dir) ==
  [Name |-> Join(<<RecordingsDir>> \o path), Op |-> op, IsDir |-> dir]

\* The directory of another day.
OtherDay == <<"d0">>

\* The artifact of an utterance after the resample step.
Whisper(n) == <<n, "_whisper", ".wav">>

\* The directory of an endpoint appears, and resampled artifacts in it.
ClientShapesOn(day) ==
  {Event(<<day, <<"u1">>>>, Create, TRUE),
   Event(<<day, <<"u1">>, Whisper("audio_1")>>, Create, FALSE),
   Event(<<day, <<"u1">>, Whisper("audio_2")>>, Create, FALSE)}

ClientShapes == ClientShapesOn(getCurrentDateDir)

\* Everything else that may happen in the tree: writes, files that are not
\* resampled artifacts, temporary files, other days, other depths, names
\* that are no ids, and names that hold _whisper elsewhere than at the end.
OtherShapes ==
  {Event(<<getCurrentDateDir>>, Create, TRUE),
   Event(<<getCurrentDateDir, <<"notes">>>>, Create, TRUE),
   Event(<<getCurrentDateDir, <<"u2">>>>, Create, FALSE),
   Event(<<getCurrentDateDir, <<"u1">>, Whisper("audio_1")>>, {"Write"}, FALSE),
   Event(<<getCurrentDateDir, <<"u1">>, Whisper("audio_1")>>, {"Create", "Write"}, FALSE),
   Event(<<getCurrentDateDir, <<"u1">>, <<"audio_1", ".wav">>>>, Create, FALSE),
   Event(<<getCurrentDateDir, <<"u1">>, Whisper("audio_1") \o <<".tmp">>>>, Create, FALSE),
   Event(<<getCurrentDateDir, <<"u1">>, <<"audio", "_whisper", "_1", ".wav">>>>, Create, FALSE),
   Event(<<getCurrentDateDir, <<"u1">>, <<"old">>>>, Create, TRUE),
   Event(<<getCurrentDateDir, <<"u1">>, <<"old">>, Whisper("audio_1")>>, Create, FALSE),
   Event(<<getCurrentDateDir, <<"notes">>, Whisper("audio_1")>>, Create, FALSE),
   Event(<<OtherDay, <<"u1">>, Whisper("audio_1")>>, Create, FALSE)}

\* --------------------------------------------------------- specifications
\* Events the watcher takes in SpecWatch and in SpecWorkers.
MaxEvents == 2
\* Attempts to enqueue in SpecQueue, and jobs the workers take from it.
MaxAttempts == 150
MaxDrained == 1
\* Events and jobs while the connection or the shutdown runs as well.
MaxJobs == 1

NextScribe ==
  \/ WatchEvent
  \/ Stop
  \/ StopReturns
  \/ Cancel
  \/ \E w \in 1..Workers : Receive(w)
  \/ \E w \in 1..Workers : WorkerReturns(w)
  \/ \E w \in 1..Workers : Transcribe(w)
  \/ \E w \in 1..Workers : AppendMessage(w)
  \/ \E w \in 1..Workers : PublishLoad(w)

\* The watcher with anything happening in the recordings tree.
InitWatch ==
  /\ Established
  /\ Started([events |-> MaxEvents, shapes |-> ClientShapes \cup OtherShapes,
              receives |-> MaxEvents, conns |-> 0, closes |-> 0, writes |-> 0,
            outputs |-> Outputs])

SpecWatch == InitWatch /\ [][NextScribe]_vars

\* The queue with many resampled artifacts appearing.
InitQueue ==
  /\ Established
  /\ Started([events |-> MaxAttempts,
              shapes |-> {Event(<<getCurrentDateDir, <<"u1">>, Whisper("audio_1")>>,
                                Create, FALSE)},
              receives |-> MaxDrained, conns |-> 0, closes |-> 0, writes |-> 0,
            outputs |-> Speech])

SpecQueue == InitQueue /\ [][NextScribe]_vars

\* The workers with the artifacts of one endpoint appearing.
InitWorkers ==
  /\ Established
  /\ Started([events |-> MaxEvents, shapes |-> ClientShapes,
              receives |-> MaxEvents, conns |-> 0, closes |-> 0, writes |-> 0,
            outputs |-> Outputs])

\* A second passes.
SecondPasses ==
  /\ now + Second <= MaxTime
  /\ now' = now + Second
  /\ UNCHANGED <<ctxDone, stream, peerClosed, nSent, pc, isReceivingTransmission,
                 transmissionBuffer, file, transmissionStartTime, arts,
                 clientList, connOpen, toPeer>>
  /\ UNCHANGED <<tasks, ap, scribe>>

\* The same with time passing between the events.
NextWorkers ==
  \/ SecondPasses
  \/ NextScribe

SpecWorkers == InitWorkers /\ [][NextWorkers]_vars

\* A goroutine that can run does run: each worker takes its next step.
SpecWorkersFair ==
  /\ SpecWorkers
  /\ \A w \in 1..Workers :
       /\ WF_vars(Receive(w))
       /\ WF_vars(Transcribe(w))
       /\ WF_vars(AppendMessage(w))
       /\ WF_vars(PublishLoad(w))

\* ------------------------------------------------- ingest and the watcher
\* Format("150405") of the second of a day, in the name of a recording.
Stamp(sec) == <<"audio_0", "audio_1", "audio_2", "audio_3">>[sec + 1]

\* The directory of the client of the connection on a day, the recording of
\* a file in it, and the output of ffmpeg for that recording.
ClientDir(day) == <<day, <<clientID>>>>
WavPath(a) == ClientDir(a.path[1]) \o <<<<Stamp(a.path[2]), ".wav">>>>
WhisperPath(a) == ClientDir(a.path[1]) \o <<Whisper(Stamp(a.path[2]))>>

\* The resample step started on the file as it is: no patch, no close.
startResampleUnpatched(as, f, buffer) ==
  AtPath(Called(as, f, "resample"), Name(as[f]), "resampling")

\* finishCurrentFile up to the start of ffmpeg, which has created its output
\* file and is writing it.
startResample(as, f, buffer) ==
  AtPath(Called(Close(UpdateWavHeader(as, f, Uint32(buffer)), f), f, "resample"),
         Name(as[f]), "resampling")

\* ffmpeg exits: with success the output is complete and the recording is
\* removed, with a failure the recording stays.
ffmpegExits(as, ok) ==
  [i \in 1..Len(as) |->
     IF as[i].disk = "resampling"
     THEN [as[i] EXCEPT !.disk = IF ok THEN "whisper" ELSE "wav"]
     ELSE as[i]]

\* The end marker of an utterance of a second or more is read and
\* finishCurrentFile is in cmd.Run of ResampleForWhisper.
ReceiveEndResample ==
  /\ pc = "loop"
  /\ Has(stream, Num(4))
  /\ prefix = EndMarker
  /\ ~IsShort(Since(transmissionStartTime))
  /\ file # 0
  /\ arts[file].disk = "wav"
  /\ isReceivingTransmission' = FALSE
  /\ stream' = Drop(stream, Num(4))
  /\ file' = 0
  /\ pc' = "resample"
  /\ arts' = startResample(Noted(arts, file), file, transmissionBuffer)
  /\ UNCHANGED <<now, ctxDone, peerClosed, nSent, transmissionBuffer,
                 transmissionStartTime, clientList, connOpen, toPeer>>
  /\ UNCHANGED <<tasks, ap, scribe>>

\* cmd.Run returns and the iteration of handleConnection ends.
ResampleReturns ==
  /\ pc = "resample"
  /\ \E ok \in BOOLEAN : IterationEnd(ffmpegExits(arts, ok), 0)
  /\ UNCHANGED <<now, ctxDone, stream, peerClosed, nSent, isReceivingTransmission,
                 transmissionBuffer, file, transmissionStartTime>>

\* What has appeared in the recordings tree through the connection, each
\* with the directory it is in: the directory of the day, the directory of
\* the client, the recordings, the renamed ones and the outputs of ffmpeg.
Appeared ==
  UNION {
    {[event |-> Event(<<arts[i].path[1]>>, Create, TRUE), in |-> RecordingsDir],
     [event |-> Event(ClientDir(arts[i].path[1]), Create, TRUE),
      in |-> Join(<<RecordingsDir, arts[i].path[1]>>)],
     [event |-> Event(WavPath(arts[i]), Create, FALSE),
      in |-> Join(<<RecordingsDir>> \o ClientDir(arts[i].path[1]))]}
    \cup (IF arts[i].disk = "incomplete"
          THEN {[event |-> Event(WavPath(arts[i]) \o <<<<".incomplete">>>>, Create, FALSE),
                 in |-> Join(<<RecordingsDir>> \o ClientDir(arts[i].path[1]))]}
          ELSE {})
    \cup (IF arts[i].disk \in {"resampling", "whisper"}
          THEN {[event |-> Event(WhisperPath(arts[i]), Create, FALSE),
                 in |-> Join(<<RecordingsDir>> \o ClientDir(arts[i].path[1]))]}
          ELSE {})
    : i \in DOMAIN arts}

\* An iteration of the loop of watchFiles that takes a create event of
\* something that appeared in a directory the watcher watches.
TreeEvent ==
  /\ ~crashed
  /\ stop # "stopped"
  /\ tasks.watchFiles = "running"
  /\ hist.events < env.events
  /\ \E x \in Appeared, ok \in BOOLEAN :
       /\ x.in \in watched
       /\ handleFSEvent(x.event, ok)
  /\ UNCHANGED <<stop, wk, subscribers, arrays, conns, env, ctxDone>>
  /\ UNCHANGED ingest

\* The connection while the peer stays, the watcher and the workers
\* together; the recognizer runs and finds no speech.
InitPipeline ==
  /\ Established
  /\ Started([events |-> MaxEvents, shapes |-> {}, receives |-> MaxJobs,
              conns |-> 0, closes |-> 0, writes |-> 0,
              outputs |-> {o \in Outputs : o.err = "" /\ o \notin Speech}])

NextPipeline ==
  \/ Tick
  \/ sendStartTransmission
  \/ sendEndTransmission
  \/ sendAudioChunk
  \/ ReceiveStart
  \/ ReceiveEnd
  \/ ReceiveEndResample
  \/ ResampleReturns
  \/ ReceiveChunk
  \/ TreeEvent
  \/ \E w \in 1..Workers : Receive(w)
  \/ \E w \in 1..Workers : Transcribe(w)

SpecPipeline == InitPipeline /\ [][NextPipeline]_vars

\* The connection and the watcher from a second before midnight until half
\* a second after it.
InitRollover ==
  /\ EstablishedAt(Midnight - Second)
  /\ Started([events |-> MaxEvents, shapes |-> {}, receives |-> 0,
              conns |-> 0, closes |-> 0, writes |-> 0, outputs |-> {}])

NextRollover ==
  \/ MidnightPasses
  \/ sendStartTransmission
  \/ sendEndTransmission
  \/ sendAudioChunk
  \/ ReceiveStart
  \/ ReceiveEnd
  \/ ReceiveEndResample
  \/ ResampleReturns
  \/ ReceiveChunk
  \/ TreeEvent

SpecRollover == InitRollover /\ [][NextRollover]_vars

\* ----------------------------------------------------- the wav container
\* The plain bytes written one at a time in SpecWav before a long run.
MaxData == 2

\* The sequences of at most n single bytes, each 0 or 255.
RECURSIVE SmallData(_)
SmallData(n) ==
  IF n = 0 THEN {<<>>}
  ELSE SmallData(n - 1)
       \cup {Append(d, Run("x", b, Num(1))) : d \in SmallData(n - 1), b \in {0, 255}}

\* The largest length whose sum with 36 fits 32 bits, 2^32 - 37.
LastFit == <<Half - 1, Half - 37>>

\* Nothing, or one run of 2^32 - 37, 2^32 - 36 or 2^32 - 1 equal bytes.
LongRuns ==
  {<<>>} \cup {<<Run("x", b, n)>> : b \in {0, 255},
                                  n \in {LastFit, Add(LastFit, Num(1)), <<Half - 1, Half - 1>>}}

\* The data a caller can hand over with its length as a uint32.
Datas ==
  {d \in {a \o b : a \in SmallData(MaxData), b \in LongRuns} : StreamLen(d)[1] < Half}

\* A caller of the audio package has data to store and no file yet.
InitWav ==
  /\ now = Second
  /\ ctxDone = FALSE
  /\ stream \in Datas
  /\ peerClosed = FALSE
  /\ nSent = 0
  /\ pc = "header"
  /\ isReceivingTransmission = FALSE
  /\ transmissionBuffer = Num(0)
  /\ file = 0
  /\ transmissionStartTime = 0
  /\ arts = <<>>
  /\ clientList = {}
  /\ connOpen = FALSE
  /\ toPeer = <<>>
  /\ tasks = Launched
  /\ ap = NewAudioProcessor
  /\ Started(Quiet)

\* The caller goes on to position p with the files as.
WavStep(p, as) ==
  /\ pc' = p
  /\ arts' = as
  /\ UNCHANGED <<now, ctxDone, stream, peerClosed, nSent, isReceivingTransmission,
                 transmissionBuffer, transmissionStartTime, clientList, connOpen,
                 toPeer>>
  /\ UNCHANGED <<tasks, ap, scribe>>

\* os.Create and WriteWavHeader(file, 0).
WavCreate ==
  /\ pc = "header"
  /\ file' = Len(arts) + 1
  /\ WavStep("data", WriteWavHeader(createWavFile(arts, "x"), Len(arts) + 1, Num(0)))

\* file.Write(data).
WavWrite ==
  /\ pc = "data"
  /\ file' = file
  /\ WavStep("patch", Write(arts, file, stream))

\* UpdateWavHeader(file, uint32(len(data))).
WavUpdate ==
  /\ pc = "patch"
  /\ file' = file
  /\ WavStep("read", UpdateWavHeader(arts, file, Uint32(StreamLen(stream))))

NextWav ==
  \/ WavCreate
  \/ WavWrite
  \/ WavUpdate

SpecWav == InitWav /\ [][NextWav]_vars

\* ------------------------------------------------------------ shutdown
\* The goroutine of Launch that waits for the root context: it closes the
\* listener.
Shutdown ==
  /\ ctxDone
  /\ tasks.launch = "running"
  /\ tasks.listener = "open"
  /\ tasks' = [tasks EXCEPT !.listener = "closed"]
  /\ UNCHANGED <<now, ctxDone, stream, peerClosed, nSent, pc,
                 isReceivingTransmission, transmissionBuffer, file,
                 transmissionStartTime, arts, clientList, connOpen, toPeer, ap>>
  /\ UNCHANGED scribe

\* The accept loop that takes the default branch for every failure of
\* Accept: it logs the failure and goes on.
AcceptFailsLogs ==
  /\ tasks.launch = "running"
  /\ tasks.listener = "closed"
  /\ UNCHANGED vars

\* The connections that are left when the goroutines of all have ended.
Ended ==
  [c \in ConnIDs |-> IF conns[c].pc = "none" THEN conns[c]
                     ELSE [conns[c] EXCEPT !.pc = "exited", !.wp = "exited"]]

\* Accept fails on the closed listener.  The listener is closed only once
\* the root context is done, so the select of the accept loop takes its
\* first branch: os.Exit(0), which ends the process and with it every
\* goroutine where it stands; nothing deferred runs, the connection is
\* closed by the system.
AcceptFails ==
  /\ tasks.launch = "running"
  /\ tasks.listener = "closed"
  /\ tasks' = [tasks EXCEPT !.launch = "exited", !.watchFiles = "exited"]
  /\ pc' = "exited"
  /\ connOpen' = FALSE
  /\ wk' = [w \in 1..Workers |-> [wk[w] EXCEPT !.pc = "exited"]]
  /\ conns' = Ended
  /\ UNCHANGED <<now, ctxDone, stream, peerClosed, nSent,
                 isReceivingTransmission, transmissionBuffer, file,
                 transmissionStartTime, arts, clientList, toPeer, ap>>
  /\ UNCHANGED <<queue, stop, crashed, clients, heap, subscribers, arrays,
                 watched, env, hist>>

\* watchFiles takes the ctx.Done() branch of its select and returns.
WatcherReturns ==
  /\ ~crashed
  /\ ctxDone
  /\ tasks.watchFiles = "running"
  /\ tasks' = [tasks EXCEPT !.watchFiles = "returned"]
  /\ UNCHANGED <<now, ctxDone, stream, peerClosed, nSent, pc,
                 isReceivingTransmission, transmissionBuffer, file,
                 transmissionStartTime, arts, clientList, connOpen, toPeer, ap>>
  /\ UNCHANGED scribe

\* The whole process while the root context is cancelled: a peer that is
\* silent, sends an end marker or closes, the watcher and the workers, with
\* MaxJobs events in the recordings tree.

InitShutdown ==
  /\ Established
  /\ Started([events |-> MaxJobs, shapes |-> ClientShapes,
              receives |-> MaxJobs, conns |-> 0, closes |-> 0, writes |-> 0,
              outputs |-> Speech])

NextShutdown ==
  \/ Cancel
  \/ Shutdown
  \/ AcceptFails
  \/ WatcherReturns
  \/ sendEndTransmission
  \/ ReceiveEnd
  \/ PeerClose
  \/ ReadMarkerFails
  \/ WatchEvent
  \/ \E w \in 1..Workers : Receive(w)
  \/ \E w \in 1..Workers : WorkerReturns(w)
  \/ \E w \in 1..Workers : Transcribe(w)
  \/ \E w \in 1..Workers : AppendMessage(w)
  \/ \E w \in 1..Workers : PublishLoad(w)

SpecShutdown == InitShutdown /\ [][NextShutdown]_vars

\* A goroutine that can run does run: the goroutine that waits for the
\* root context and the accept loop take their next steps.
SpecShutdownFair ==
  /\ SpecShutdown
  /\ WF_vars(Shutdown)
  /\ WF_vars(AcceptFails)

\* The subscribers the hub starts with in SpecHub, the envelopes published
\* and the envelopes written in it.
Subscribed == 3
MaxPublishes == 1
MaxCloses == 1
MaxWrites == 1

\* The slice of an id after n calls of registerSubscriber, one after the
\* other, for the wsConnections 1..n.
RECURSIVE Registered(_)
Registered(n) ==
  IF n = 0 THEN [arrays |-> <<>>, hdr |-> EmptySlice]
  ELSE AppendSlice(Registered(n - 1).arrays, Registered(n - 1).hdr, n)

\* An envelope of an earlier publish.
Earlier ==
  wsMsg([ClientID |-> "u1", Timestamp |-> 0],
        [Timestamp |-> 0, Text |-> <<"hello">>,
         AudioFile |-> Whisper("audio_0"), Confidence |-> 1])

\* The service with subscribers of one endpoint, registered one after the
\* other, of which one may have a writePump that has fallen behind: its
\* channel is one short of full, or full.
InitHub ==
  /\ Established
  /\ queue = <<>>
  /\ stop = "running"
  /\ crashed = FALSE
  /\ clients = [u \in UUIDs |-> 0]
  /\ heap = <<>>
  /\ wk = [w \in 1..Workers |-> Idle]
  /\ subscribers = [u \in Keys |-> IF u = "u1" THEN Registered(Subscribed).hdr
                                    ELSE NoSlice]
  /\ arrays = Registered(Subscribed).arrays
  /\ \E slow \in 0..Subscribed, held \in {SendCapacity - 1, SendCapacity} :
       conns = [c \in ConnIDs |->
                  IF c <= Subscribed
                  THEN [NoConn EXCEPT !.pc = "open", !.clientID = "u1", !.wp = "run",
                                      !.acc = IF c # slow THEN <<>>
                                               ELSE <<[e |-> Earlier, n |-> held]>>,
                                      !.send = IF c # slow THEN <<>>
                                               ELSE <<[e |-> Earlier, n |-> held]>>]
                  ELSE NoConn]
  /\ watched = {RecordingsDir, Join(<<RecordingsDir, getCurrentDateDir>>)}
  /\ env = [events |-> MaxPublishes,
            shapes |-> {Event(<<getCurrentDateDir, <<"u1">>, Whisper("audio_1")>>,
                              Create, FALSE)},
            receives |-> MaxPublishes, conns |-> MaxConns, closes |-> MaxCloses,
            writes |-> MaxWrites,
            outputs |-> Outputs]
  /\ hist = [NoHistory EXCEPT !.made = Subscribed]

NextHub ==
  \/ WatchEvent
  \/ handleWebSocket
  \/ \E c \in ConnIDs : registerSubscriber(c)
  \/ \E c \in ConnIDs : readPump(c)
  \/ \E c \in ConnIDs : unregisterSubscriber(c)
  \/ \E c \in ConnIDs : writePump(c)
  \/ \E w \in 1..Workers : Receive(w)
  \/ \E w \in 1..Workers : Transcribe(w)
  \/ \E w \in 1..Workers : AppendMessage(w)
  \/ \E w \in 1..Workers : PublishLoad(w)
  \/ \E w \in 1..Workers : PublishSend(w)

SpecHub == InitHub /\ [][NextHub]_vars

\* What the surroundings do in SpecFanout: events of the watcher, requests
\* for a subscription, reads that fail and envelopes written, together.
MaxActs == 3

\* The hub after registerSubscriber was called for the wsConnections
\* 1..Len(ids), one after the other, the k-th for the id ids[k].
RECURSIVE Serving(_)
Serving(ids) ==
  IF ids = <<>> THEN [arrays |-> <<>>, subscribers |-> [u \in Keys |-> NoSlice]]
  ELSE LET before == Serving(SubSeq(ids, 1, Len(ids) - 1))
           id == ids[Len(ids)]
           r == AppendSlice(before.arrays,
                            IF before.subscribers[id].ok THEN before.subscribers[id]
                            ELSE EmptySlice,
                            Len(ids))
       IN [arrays |-> r.arrays,
           subscribers |-> [before.subscribers EXCEPT ![id] = r.hdr]]

\* The subscribers SpecFanout starts with: two of one endpoint, one of another.
Bound == <<"u1", "u1", "u2">>

\* What the surroundings have done so far.
Acts == hist.events + hist.made + hist.closes + hist.writes

\* The service with subscribers of two endpoints and artifacts of both
\* appearing.
InitFanout ==
  /\ Established
  /\ queue = <<>>
  /\ stop = "running"
  /\ crashed = FALSE
  /\ clients = [u \in UUIDs |-> 0]
  /\ heap = <<>>
  /\ wk = [w \in 1..Workers |-> Idle]
  /\ subscribers = Serving(Bound).subscribers
  /\ arrays = Serving(Bound).arrays
  /\ conns = [c \in ConnIDs |->
                IF c <= Len(Bound)
                THEN [NoConn EXCEPT !.pc = "open", !.clientID = Bound[c], !.wp = "run"]
                ELSE NoConn]
  /\ watched = {RecordingsDir, Join(<<RecordingsDir, getCurrentDateDir>>)}
  /\ env = [events |-> MaxActs,
            shapes |-> {Event(<<getCurrentDateDir, <<u>>, Whisper("audio_1")>>,
                              Create, FALSE) : u \in UUIDs},
            receives |-> MaxActs, conns |-> MaxConns, closes |-> MaxActs,
            writes |-> MaxActs,
            outputs |-> Speech]
  /\ hist = [NoHistory EXCEPT !.made = Len(Bound)]

\* The surroundings act while they have acts left; the workers and the
\* calls in progress take their steps.
NextFanout ==
  \/ Acts < Len(Bound) + MaxActs /\ WatchEvent
  \/ Acts < Len(Bound) + MaxActs /\ handleWebSocket
  \/ \E c \in ConnIDs : Acts < Len(Bound) + MaxActs /\ readPump(c)
  \/ \E c \in ConnIDs : Acts < Len(Bound) + MaxActs /\ writePump(c)
  \/ \E c \in ConnIDs : registerSubscriber(c)
  \/ \E c \in ConnIDs : unregisterSubscriber(c)
  \/ \E w \in 1..Workers : Receive(w)
  \/ \E w \in 1..Workers : Transcribe(w)
  \/ \E w \in 1..Workers : AppendMessage(w)
  \/ \E w \in 1..Workers : PublishLoad(w)
  \/ \E w \in 1..Workers : PublishSend(w)

SpecFanout == InitFanout /\ [][NextFanout]_vars

\* The envelopes published and the envelopes written in SpecPump.
MaxSends == 2

\* The service with one subscriber of an endpoint whose queue is empty or
\* holds an envelope of an earlier publish, two artifacts of the endpoint
\* appearing, and its writePump writing.
InitPump ==
  /\ Established
  /\ queue = <<>>
  /\ stop = "running"
  /\ crashed = FALSE
  /\ clients = [u \in UUIDs |-> 0]
  /\ heap = <<>>
  /\ wk = [w \in 1..Workers |-> Idle]
  /\ subscribers = Serving(<<"u1">>).subscribers
  /\ arrays = Serving(<<"u1">>).arrays
  /\ \E held \in 0..1 :
       conns = [c \in ConnIDs |->
                  IF c = 1
                  THEN [NoConn EXCEPT !.pc = "open", !.clientID = "u1", !.wp = "run",
                                      !.acc = IF held = 0 THEN <<>>
                                              ELSE <<[e |-> Earlier, n |-> held]>>,
                                      !.send = IF held = 0 THEN <<>>
                                               ELSE <<[e |-> Earlier, n |-> held]>>]
                  ELSE NoConn]
  /\ watched = {RecordingsDir, Join(<<RecordingsDir, getCurrentDateDir>>)}
  /\ env = [events |-> MaxSends,
            shapes |-> {Event(<<getCurrentDateDir, <<"u1">>, Whisper(n)>>, Create, FALSE) :
                          n \in {"audio_1", "audio_2"}},
            receives |-> MaxSends, conns |-> 0, closes |-> MaxCloses,
            writes |-> MaxSends,
            outputs |-> Speech]
  /\ hist = [NoHistory EXCEPT !.made = 1]

NextPump ==
  \/ WatchEvent
  \/ \E c \in ConnIDs : readPump(c)
  \/ \E c \in ConnIDs : unregisterSubscriber(c)
  \/ \E c \in ConnIDs : writePump(c)
  \/ \E w \in 1..Workers : Receive(w)
  \/ \E w \in 1..Workers : Transcribe(w)
  \/ \E w \in 1..Workers : AppendMessage(w)
  \/ \E w \in 1..Workers : PublishLoad(w)
  \/ \E w \in 1..Workers : PublishSend(w)

SpecPump == InitPump /\ [][NextPump]_vars

\* The messages of a log in SpecApi.
MaxLog == 2

\* The times of the artifacts in SpecApi: two of the first day, two of the
\* second.
Stamps == {Midnight - 2 * Second, Midnight - Second, Midnight, Midnight + Second}

\* The message of an artifact that was enqueued at a time.
Message(t) ==
  [Timestamp |-> t, Text |-> <<"hello">>, AudioFile |-> Whisper("audio_1"),
   Confidence |-> 1]

\* The logs of at most n messages with timestamps up to a time.
RECURSIVE Logs(_, _)
Logs(n, t) ==
  IF n = 0 THEN {<<>>}
  ELSE Logs(n - 1, t) \cup
       {Append(m, Message(u)) : m \in Logs(n - 1, t), u \in {v \in Stamps : v <= t}}

\* The service late on the first day or early on the second, with a
\* transcript store the workers and the watcher may have left: each
\* endpoint has no entry, or a log whose messages are in any order.
InitApi ==
  /\ \E t \in {Midnight - Second, Midnight + Second} :
       /\ EstablishedAt(t)
       /\ \E a, b \in Logs(MaxLog, t), known \in SUBSET UUIDs :
            /\ clients = [u \in UUIDs |->
                            IF u \notin known THEN 0
                            ELSE IF u = "u1" \/ "u1" \notin known THEN 1 ELSE 2]
            /\ heap = (IF "u1" \in known THEN <<a>> ELSE <<>>) \o
                      (IF "u2" \in known THEN <<b>> ELSE <<>>)
  /\ queue = <<>>
  /\ stop = "running"
  /\ crashed = FALSE
  /\ wk = [w \in 1..Workers |-> Idle]
  /\ subscribers = [u \in Keys |-> NoSlice]
  /\ arrays = <<>>
  /\ conns = [c \in ConnIDs |-> NoConn]
  /\ watched = {RecordingsDir, Join(<<RecordingsDir, getCurrentDateDir>>)}
  /\ env = Quiet
  /\ hist = NoHistory

NextApi ==
  \/ handleGetClient
  \/ handleListClients

SpecApi == InitApi /\ [][NextApi]_vars

\* The service with one subscriber of an endpoint, artifacts of the
\* endpoint appearing, a recognizer that may fail or hear nothing, and
\* time passing.
InitJobs ==
  /\ Established
  /\ queue = <<>>
  /\ stop = "running"
  /\ crashed = FALSE
  /\ clients = [u \in UUIDs |-> 0]
  /\ heap = <<>>
  /\ wk = [w \in 1..Workers |-> Idle]
  /\ subscribers = Serving(<<"u1">>).subscribers
  /\ arrays = Serving(<<"u1">>).arrays
  /\ conns = [c \in ConnIDs |->
                IF c = 1
                THEN [NoConn EXCEPT !.pc = "open", !.clientID = "u1", !.wp = "run"]
                ELSE NoConn]
  /\ watched = {RecordingsDir, Join(<<RecordingsDir, getCurrentDateDir>>)}
  /\ env = [events |-> MaxEvents,
            shapes |-> {Event(<<getCurrentDateDir, <<"u1">>, Whisper(n)>>, Create, FALSE) :
                          n \in {"audio_1", "audio_2"}},
            receives |-> MaxEvents, conns |-> 0, closes |-> 0, writes |-> 0,
            outputs |-> Outputs]
  /\ hist = [NoHistory EXCEPT !.made = 1]

NextJobs ==
  \/ SecondPasses
  \/ WatchEvent
  \/ \E w \in 1..Workers : Receive(w)
  \/ \E w \in 1..Workers : Transcribe(w)
  \/ \E w \in 1..Workers : AppendMessage(w)
  \/ \E w \in 1..Workers : PublishLoad(w)
  \/ \E w \in 1..Workers : PublishSend(w)

SpecJobs == InitJobs /\ [][NextJobs]_vars

\* ============================================================ properties
\* A step of the handler's loop: it reads from the stream.
HandlerStep == pc = "loop" /\ stream' # stream /\ nSent' = nSent

\* The first end marker the handler read for this file, if any.
FirstEnd(a) ==
  LET ends == {j \in DOMAIN a.frames : a.frames[j].m = "end"}
  IN IF ends = {} THEN 0 ELSE CHOOSE j \in ends : \A l \in ends : j <= l

\* The utterance of this file was ended by an end marker less than one
\* second after its start marker.
EndedShort(a) == FirstEnd(a) # 0 /\ ~a.frames[FirstEnd(a)].late

Resampled(a) == \E j \in DOMAIN a.ops : a.ops[j] = "resample"

Patched(a) == \E j \in DOMAIN a.ops : a.ops[j] = "patch"

\* The file without its history.
OnDisk(a) ==
  [path |-> a.path, disk |-> a.disk, open |-> a.open, hdr |-> a.hdr,
   chunkSize |-> a.chunkSize, dataSize |-> a.dataSize, dataLen |-> a.dataLen,
   head |-> a.head, data |-> a.data]

\* C1: an utterance ended by an end marker less than one second after its
\* start marker has its artifact deleted, and the resample step is never
\* invoked for it.
C1_ShortSuppressed ==
  \A i \in DOMAIN arts :
    EndedShort(arts[i]) => arts[i].disk = "removed" /\ ~Resampled(arts[i])

C3_DataSizeIsReceived ==
  \A i \in DOMAIN arts : Patched(arts[i]) => arts[i].dataSize = arts[i].received

\* C3 as amended: the data-size field of every finalized container equals
\* the number of payload bytes received between its start and end markers
\* reduced modulo 2^32, which is that number whenever it is below 2^32.
C3_DataSizeIsReceivedMod32 ==
  \A i \in DOMAIN arts :
    Patched(arts[i]) =>
      /\ arts[i].dataSize = Uint32(arts[i].received)
      /\ arts[i].received[1] < Half => arts[i].dataSize = arts[i].received

\* C3 witness: a finalized container for which 2^32 bytes or more were
\* received.
C3_Witness ==
  \E i \in DOMAIN arts : Patched(arts[i]) /\ arts[i].received[1] >= Half

\* C4: every artifact the resample step is invoked on was transmitted as
\* one start marker, then payload frames only, then one end marker, the end
\* marker a second or more after the start marker.
C4_ResampledWellFormed ==
  \A i \in DOMAIN arts :
    Resampled(arts[i]) =>
      LET fr == arts[i].frames IN
      /\ Len(fr) >= 2
      /\ fr[1].k = "S"
      /\ fr[Len(fr)].k = "E" /\ fr[Len(fr)].late
      /\ \A j \in 2..(Len(fr) - 1) : fr[j].k = "P"

\* An artifact that is open, or left under its plain name with the
\* placeholder header.
InProgress(a) == a.open \/ (a.disk = "wav" /\ ~Patched(a))

\* C5: at most one utterance is in progress: never two artifacts open or
\* unfinished.
C5_AtMostOneInProgress ==
  Cardinality({i \in DOMAIN arts : InProgress(arts[i])}) <= 1

\* C6: a payload frame read while no utterance is in progress is ignored:
\* the handler stays Idle, no file is created or changed, and the stream
\* continues after the frame's payload.
C6_IdlePayloadSkipped ==
  [][(HandlerStep /\ Has(stream, Num(4)) /\ stream[1].k = "P"
        /\ ~isReceivingTransmission)
     => /\ ~isReceivingTransmission'
        /\ [i \in DOMAIN arts' |-> OnDisk(arts'[i])] = [i \in DOMAIN arts |-> OnDisk(arts[i])]
        /\ stream' = Drop(stream, Add(Num(4), prefix))]_vars

\* C7: an end marker read while no utterance is in progress produces no
\* artifact, invokes no resample step and leaves the handler Idle.
C7_IdleEndIgnored ==
  [][(HandlerStep /\ Has(stream, Num(4)) /\ stream[1].k = "E"
        /\ ~isReceivingTransmission)
     => /\ ~isReceivingTransmission'
        /\ Len(arts') = Len(arts)
        /\ \A i \in DOMAIN arts :
             arts'[i].disk = arts[i].disk /\ (Resampled(arts'[i]) <=> Resampled(arts[i]))]_vars

\* The maximum chunk size the server is configured to accept (1 MiB).
MaxChunkSize == 1048576

\* C8: on a payload prefix above the maximum chunk size the handler closes
\* the connection without reading or storing the payload.
C8_OversizeClosed ==
  [][(HandlerStep /\ Has(stream, Num(4)) /\ IsChunk /\ Less(Num(MaxChunkSize), prefix))
     => /\ pc' = "done"
        /\ transmissionBuffer' = transmissionBuffer
        /\ \A i \in DOMAIN arts : arts'[i].dataLen = arts[i].dataLen]_vars

\* C9: when the read of the next prefix fails while an utterance is being
\* recorded, the artifact is closed and renamed with the .incomplete suffix
\* if the utterance has lasted a second or more, deleted otherwise, and the
\* resample step is not invoked.
C9_IncompleteOnReadFailure ==
  [][(pc = "loop" /\ pc' = "done" /\ peerClosed /\ ~Has(stream, Num(4))
        /\ isReceivingTransmission)
     => /\ file # 0
        /\ ~arts'[file].open
        /\ arts'[file].disk =
             (IF now - arts[file].t0 >= Second THEN "incomplete" ELSE "removed")
        /\ \A i \in DOMAIN arts : ~Resampled(arts'[i]) \/ Resampled(arts[i])]_vars

\* C9 witness: the handler has returned and left an artifact renamed with
\* the .incomplete suffix.
C9_Witness ==
  /\ pc = "done"
  /\ isReceivingTransmission
  /\ file # 0
  /\ arts[file].disk = "incomplete"

\* C10: when the stream ends inside a payload while an utterance is being
\* recorded, the artifact is renamed with the .incomplete suffix if the
\* utterance has lasted a second or more and deleted otherwise.
C10_IncompleteOnCutPayload ==
  [][(pc = "loop" /\ pc' = "done" /\ peerClosed /\ Has(stream, Num(4)) /\ IsChunk
        /\ isReceivingTransmission /\ stream' = <<>>)
     => /\ file # 0
        /\ arts'[file].disk =
             (IF now - arts[file].t0 >= Second THEN "incomplete" ELSE "removed")]_vars

\* The peer wrote a token that is not the configured one.
WrongSecret == \E s \in Secrets \ {token} : stream = Bytes("x", s)

C12_ListedWhileHandled == (clientID \in clientList) <=> (pc = "loop")

\* C12 witness: handleConnection returned on cancellation, after it had
\* sent the id and received frames, and the record is gone.
C12_Witness ==
  /\ pc = "done"
  /\ ctxDone
  /\ toPeer = <<clientID>>
  /\ arts # <<>>
  /\ clientID \notin clientList

\* C13: once handleConnection has returned, no file it created is open.
C13_AllClosedOnExit == pc = "done" => \A i \in DOMAIN arts : ~arts[i].open

\* The event is a create event for a path three components below the
\* recordings directory, in the directory of the current day, whose second
\* component parses as an id and whose leaf ends in _whisper.wav.
Qualifies(event) ==
  LET parts == Split(Rel(RecordingsDir, event.Name))
  IN /\ "Create" \in event.Op
     /\ Len(parts) = 3
     /\ parts[1] = getCurrentDateDir
     /\ Parse(parts[2])
     /\ HasSuffix(parts[3], <<"_whisper", ".wav">>)

\* C14: handleFSEvent offers a job to the queue only for a create event
\* whose path is three components below the recordings root, in the
\* current day's directory, with a second component that parses as an id
\* and a leaf with the _whisper suffix and the .wav extension.
C14_OnlyWhisperEnqueued ==
  /\ \A event \in hist.offered : Qualifies(event)
  /\ \A job \in BagToSet(hist.accepted) : \E event \in hist.offered : event.Name = job.FilePath

\* handleNewAudioFile is called on the running service.
Attempt == hist'.attempts = hist.attempts + 1 /\ ~crashed'

\* C15: the queue never holds more than 100 jobs; every call of
\* handleNewAudioFile returns, with the job in the queue or dropped; on a
\* full queue the job is dropped and the queue is left as it was; with no
\* job taken from the queue, the first 100 attempts are accepted and every
\* later one is dropped, so of 150 attempts 100 are accepted and 50 dropped.
C15_BoundedQueue ==
  /\ [](/\ Len(queue) <= 100
        /\ ~crashed => hist.attempts = BagCardinality(hist.accepted) + hist.dropped
        /\ hist.received = 0 /\ ~crashed =>
             /\ Len(queue) = (IF hist.attempts <= 100 THEN hist.attempts ELSE 100)
             /\ hist.dropped = hist.attempts - Len(queue)
             /\ BagCardinality(hist.accepted) = Len(queue))
  /\ [][(Attempt /\ Len(queue) = 100)
          => queue' = queue /\ hist'.dropped = hist.dropped + 1]_vars

\* C15 witness: 150 attempts on the empty queue with no job taken from it:
\* 100 jobs are in the queue and 50 were dropped.
C15_Witness ==
  /\ hist.attempts = 150
  /\ hist.received = 0
  /\ Len(queue) = 100
  /\ BagCardinality(hist.accepted) = 100
  /\ hist.dropped = 50

\* The jobs the watcher can make in SpecWorkers.
JobSpace ==
  {[FilePath |-> event.Name, ClientID |-> u, Timestamp |-> t] :
     event \in ClientShapesOn(Format(Second)) \cup ClientShapesOn(Format(Midnight)),
     u \in UUIDs, t \in Second..(MaxTime + 1)}

\* The number of times processJob was called with the job.
Passed(job) == Cardinality({i \in DOMAIN hist.passed : hist.passed[i].job = job})

\* C16: a job accepted into the queue is passed to processJob by one
\* worker: never more often than it was accepted, and, while the root
\* context is not cancelled, eventually as often as it was accepted.
C16_PassedExactlyOnce ==
  /\ [](\A job \in JobSpace : Passed(job) <= CopiesIn(job, hist.accepted))
  /\ \A job \in JobSpace :
       (Passed(job) < CopiesIn(job, hist.accepted))
         ~> (Passed(job) = CopiesIn(job, hist.accepted) \/ ctxDone)

\* The message log of the endpoint, as a reader of s.clients finds it.
Log(u) == IF clients[u] = 0 THEN <<>> ELSE heap[clients[u]]

Occurrences(log, msg) == Cardinality({i \in DOMAIN log : log[i] = msg})

\* C17: a message whose append has completed is in the log of its
\* endpoint, as often as it was appended, as long as handleNewClient has
\* not replaced the log: no append of concurrent workers is lost.
C17_NoAppendLost ==
  hist.replaced = 0 =>
    \A x \in BagToSet(hist.stored) :
      Occurrences(Log(x.ClientID), x.msg) >= CopiesIn(x, hist.stored)

\* C18: every log is append-only: in every step each message of a log
\* stays at its position with its content.
C18_AppendOnly ==
  [][\A u \in UUIDs :
       /\ Len(Log(u)') >= Len(Log(u))
       /\ SubSeq(Log(u)', 1, Len(Log(u))) = Log(u)]_vars

\* C19: the messages of two artifacts of an endpoint, of which the second
\* appeared a second or more after the first, are in the log in the order
\* in which the artifacts appeared.
C19_TransmissionOrder ==
  \A u \in UUIDs :
    \A i, j \in DOMAIN Log(u) :
      (/\ Log(u)[i].AudioFile # Log(u)[j].AudioFile
       /\ Log(u)[i].Timestamp + Second <= Log(u)[j].Timestamp) => i < j
\* The wsConnections in the subscriber list of an endpoint.
Subscribers(u) ==
  IF subscribers[u].ok THEN Elements(arrays, subscribers[u]) ELSE {}

\* The wsConnection the publish of a worker is about to send to, and the
\* wsConnections it has sent to once that send is done.
Current(w) == arrays[wk[w].hdr.arr][wk[w].i]
Visited(w) == wk[w].seen \cup {Current(w)}

\* C20: a publish never waits; each of its sends puts the envelope into the
\* queue of the subscriber when that queue holds fewer than 256 envelopes
\* and leaves the queue as it is otherwise, changing no other queue; and
\* when the publish ends, every wsConnection that was a subscriber of the
\* endpoint when the publish began and still is one has been sent to.
C20_PublishReachesAll ==
  /\ [](\A w \in 1..Workers :
          (wk[w].pc = "send" /\ ~crashed) => ENABLED PublishSend(w))
  /\ [][\A w \in 1..Workers :
          (wk[w].pc = "send" /\ wk'[w] # wk[w]) =>
             /\ conns'[Current(w)].send =
                  IF ChanLen(conns[Current(w)].send) < SendCapacity
                  THEN Enqueue(conns[Current(w)].send, wsMsg(wk[w].job, wk[w].msg))
                  ELSE conns[Current(w)].send
             /\ \A d \in ConnIDs \ {Current(w)} : conns'[d].send = conns[d].send
             /\ wk'[w].pc = "idle" =>
                  (wk[w].at \cap Subscribers(wk[w].job.ClientID)) \subseteq Visited(w)]_vars

\* C21: every envelope in the outbound queue of a wsConnection was
\* published for the endpoint the wsConnection is bound to.
C21_OnlyOwnEndpoint ==
  \A c \in ConnIDs :
    \A k \in DOMAIN conns[c].send : conns[c].send[k].e.ClientID = conns[c].clientID

\* Subscribers of two endpoints hold an envelope each, and a subscriber
\* was unregistered on the way.
C21_Witness ==
  /\ \E c, d \in ConnIDs :
       /\ conns[c].clientID = "u1" /\ conns[c].send # <<>>
       /\ conns[d].clientID = "u2" /\ conns[d].send # <<>>
  /\ \E c \in ConnIDs : conns[c].pc = "closed"

\* C22: when readPump has unregistered a wsConnection whose read failed
\* and closed it, the wsConnection is not in the subscriber list of its
\* endpoint, and an endpoint left without subscribers has no entry.
C22_UnregisteredOnReadFailure ==
  [][\A c \in ConnIDs :
       (conns[c].pc # "closed" /\ conns'[c].pc = "closed") =>
          /\ c \notin Subscribers(conns[c].clientID)'
          /\ Subscribers(conns[c].clientID)' = {} =>
               ~subscribers'[conns[c].clientID].ok]_vars

\* C23: a subscription request whose id is no 128-bit id is answered with
\* status 400 and changes nothing in the hub: no wsConnection is made for
\* it, none is bound to such an id, and no subscriber list changes.
C23_BadIdRejected ==
  /\ [](/\ (hist.resp.handler = "ws" /\ hist.resp.id \notin UUIDs) =>
             hist.resp.status = 400
         /\ \A c \in ConnIDs : conns[c].pc # "none" => conns[c].clientID \in UUIDs
         /\ ~subscribers["x"].ok)
  /\ [][(hist'.resp # hist.resp /\ hist'.resp.handler = "ws"
                                /\ hist'.resp.id \notin UUIDs) =>
          /\ UNCHANGED <<subscribers, arrays, conns>>
          /\ hist'.made = hist.made]_vars

\* A request with such an id was answered while subscribers are registered.
C23_Witness ==
  /\ hist.resp.handler = "ws"
  /\ hist.resp.id = "x"
  /\ hist.resp.status = 400
  /\ \E c \in ConnIDs : conns[c].pc = "open"

\* The positions in the log of an endpoint of the messages whose timestamp
\* is of the current day, and the last of them.
Today(u) == {i \in DOMAIN Log(u) : Format(Log(u)[i].Timestamp) = Format(now)}
LastToday(u) == CHOOSE i \in Today(u) : \A j \in Today(u) : j <= i

\* C24: handleGetClient answers 404 for an id without an entry in the
\* store and for an endpoint whose log has no message of the current day;
\* otherwise it answers with the message of the current day that is
\* nearest the tail of the log.
C24_GetNearestTail ==
  [][(hist'.resp # hist.resp /\ hist'.resp.handler = "get") =>
       LET id == hist'.resp.id
       IN IF id \notin UUIDs THEN hist'.resp.status = 404
          ELSE IF clients[id] = 0 \/ Today(id) = {} THEN hist'.resp.status = 404
          ELSE /\ hist'.resp.status = 200
               /\ hist'.resp.body = Log(id)[LastToday(id)]]_vars

\* The answer is the first message of a log whose second message is of
\* another day.
C24_Witness ==
  /\ hist.resp.handler = "get"
  /\ hist.resp.status = 200
  /\ hist.resp.id \in UUIDs
  /\ Len(Log(hist.resp.id)) = 2
  /\ Today(hist.resp.id) = {1}
  /\ hist.resp.body = Log(hist.resp.id)[1]

\* C25: handleListClients answers with one entry for every id that has an
\* entry in the store and for no other id; the entry is the message of the
\* current day nearest the tail of the log of the id, and the message with
\* nothing in it when the log has no message of the current day.
C25_ListEveryEndpoint ==
  [][(hist'.resp # hist.resp /\ hist'.resp.handler = "list") =>
       /\ hist'.resp.status = 200
       /\ DOMAIN hist'.resp.body = {u \in UUIDs : clients[u] # 0}
       /\ \A u \in DOMAIN hist'.resp.body :
            hist'.resp.body[u] =
              IF Today(u) = {}
              THEN [Timestamp |-> 0, Text |-> <<>>, AudioFile |-> <<>>, Confidence |-> 0]
              ELSE Log(u)[LastToday(u)]]_vars

\* One endpoint is listed with a message of the current day, the other,
\* whose log holds a message of the day before only, with the placeholder,
\* and the answer names no third id.
C25_Witness ==
  /\ hist.resp.handler = "list"
  /\ DOMAIN hist.resp.body = UUIDs
  /\ hist.resp.body["u1"].Timestamp = 0
  /\ Len(Log("u1")) > 0
  /\ hist.resp.body["u2"].Timestamp >= Midnight

\* C26: a run of processJob whose recognizer exits with an error, or whose
\* output has no text after extractText, changes no log, no outbound queue
\* and not the job queue, and leaves the worker waiting for the next job;
\* it returns no error when the recognizer reported that the input file
\* was not found.  The job queue holds jobs of the watcher only: every job
\* that was accepted is in the queue or was received once.
C26_FailedJobDropped ==
  /\ [](Len(queue) + hist.received = BagCardinality(hist.accepted))
  /\ [][\A w \in 1..Workers, o \in Outputs :
          ((o.err # "" \/ extractText(o.out) = <<>>) /\ processJob(w, o)) =>
             /\ UNCHANGED <<heap, clients, conns, queue, subscribers, arrays>>
             /\ wk'[w].pc = "idle"
             /\ o.err = "input file not found" => hist'.skip.ret = "nil"]_vars

\* Of two jobs one was dropped for a missing input file and the other
\* gave the one message in the log and the one envelope of the subscriber.
C26_Witness ==
  /\ hist.skip.err = "input file not found"
  /\ hist.skip.ret = "nil"
  /\ hist.received = 2
  /\ queue = <<>>
  /\ \A w \in 1..Workers : wk[w].pc = "idle"
  /\ Len(Log("u1")) = 1
  /\ ChanLen(conns[1].send) = 1

\* A job the watcher enqueued for this endpoint and file at this time.
Enqueued(u, name, t) ==
  \E job \in BagToSet(hist.accepted) :
    job.ClientID = u /\ Base(job.FilePath) = name /\ job.Timestamp = t

\* C27: a job gets the time at which the watcher enqueues it, and every
\* message in a log and every envelope in an outbound queue carries the
\* time at which the job of its file was enqueued, whatever time has
\* passed until the recognizer finished.
C27_EnqueueTimestamp ==
  /\ [](\A u \in UUIDs : \A i \in DOMAIN Log(u) :
          Enqueued(u, Log(u)[i].AudioFile, Log(u)[i].Timestamp))
  /\ [](\A c \in ConnIDs : \A k \in DOMAIN conns[c].send :
          LET e == conns[c].send[k].e
          IN /\ e.Payload.Timestamp = e.Timestamp
             /\ Enqueued(e.ClientID, e.Payload.AudioFile, e.Timestamp))
  /\ [][Len(queue') > Len(queue) => queue'[Len(queue')].Timestamp = now]_vars

\* The message and the envelope of a job exist a second or more after the
\* job was enqueued, and no job was enqueued since.
C27_Witness ==
  /\ Len(Log("u1")) = 1
  /\ Log("u1")[1].Timestamp + Second <= now
  /\ ChanLen(conns[1].send) = 1
  /\ conns[1].send[1].e.Timestamp + Second <= now
  /\ BagCardinality(hist.accepted) = 1
  /\ \A w \in 1..Workers : wk[w].pc = "idle"

\* The accepted jobs of a set, each counted as often as it was accepted.
RECURSIVE Copies(_)
Copies(jobs) ==
  IF jobs = {} THEN 0
  ELSE LET job == CHOOSE j \in jobs : TRUE
       IN CopiesIn(job, hist.accepted) + Copies(jobs \ {job})

\* The create events the watcher accepted for an endpoint whose file is a
\* _whisper artifact: its name ends in _whisper.wav.
WhisperArtifacts(u) ==
  Copies({job \in BagToSet(hist.accepted) :
            /\ job.ClientID = u
            /\ HasSuffix(Base(job.FilePath), <<"_whisper", ".wav">>)})

\* C28: the log of an endpoint never holds more messages than create
\* events of _whisper artifacts were accepted by the watcher for it.
C28_MessagesBoundedByArtifacts ==
  \A u \in UUIDs : Len(Log(u)) <= WhisperArtifacts(u)

\* C29: once the root context is cancelled every task ends: the accept loop,
\* the connection handler, also one that waits for a frame of a silent peer,
\* watchFiles and every worker.
Terminated ==
  /\ tasks.launch = "exited"
  /\ pc \in {"done", "rejected", "exited"}
  /\ tasks.watchFiles \in {"returned", "exited"}
  /\ \A w \in 1..Workers : wk[w].pc \in {"returned", "exited"}

C29_AllTasksTerminate == ctxDone ~> Terminated

\* The process has exited while the handler waited for a peer that never
\* sent a frame nor closed, and while a worker was at work on a job.
C29_Witness ==
  /\ ctxDone
  /\ Terminated
  /\ pc = "exited"
  /\ nSent = 0
  /\ ~peerClosed
  /\ \E w \in 1..Workers : wk[w].job # Idle.job

\* The uint32 field of a header at an offset.
Field(head, off) == LittleEndianUint32(SubSeq(head, off + 1, off + 4))

\* The bytes of a header outside its fields at the offsets 4 and 40 are
\* those of the placeholder header.
RestUnchanged(head) ==
  /\ Len(head) = 44
  /\ \A i \in (1..4) \cup (9..40) : head[i] = WavHeader(Num(0))[i]

\* C30: after WriteWavHeader(0), a write of data and UpdateWavHeader with the
\* length of data, the field at offset 4 is the length plus 36, the field at
\* offset 40 is the length, the other bytes of the header are unchanged and
\* the bytes from offset 44 are data.
C30_HeaderRoundTrip ==
  pc = "read"
    => /\ Field(arts[file].head, 4) = Add(StreamLen(stream), Num(36))
       /\ Field(arts[file].head, 40) = StreamLen(stream)
       /\ RestUnchanged(arts[file].head)
       /\ arts[file].data = stream

\* C30, amended: the field at offset 4 is the length plus 36 modulo 2^32,
\* and the length plus 36 itself for every length up to 2^32 - 37; offset
\* 40, the other bytes and the data as stated.
C30_HeaderRoundTripMod32 ==
  pc = "read"
    => /\ Field(arts[file].head, 4) = Uint32(Add(StreamLen(stream), Num(36)))
       /\ ~Less(LastFit, StreamLen(stream))
            => Field(arts[file].head, 4) = Add(StreamLen(stream), Num(36))
       /\ Field(arts[file].head, 40) = StreamLen(stream)
       /\ RestUnchanged(arts[file].head)
       /\ arts[file].data = stream

\* The header of a file of 2^32 - 36 bytes or more has been updated.
C30_Witness ==
  /\ pc = "read"
  /\ Less(LastFit, StreamLen(stream))
  /\ "patch" \in {arts[file].ops[j] : j \in DOMAIN arts[file].ops}

\* The utterance of the file started on another day than the current one.
DayChanged(a) == Format(a.t0) # getCurrentDateDir

\* C31: when the day changes while an utterance is recorded, its artifact
\* lies in the directory of the day the utterance started, and every call
\* that finalizes, deletes or renames it is made with that name; nothing is
\* created for it in the directory of the new day.
C31_StaysInStartDay ==
  \A i \in DOMAIN arts :
    /\ arts[i].path = FileName(arts[i].t0)
    /\ \A j \in DOMAIN arts[i].on : arts[i].on[j] = arts[i].path

\* An utterance that started before midnight was finalized after it, and
\* another was renamed or removed after it.
C31_Witness ==
  /\ \E i \in DOMAIN arts :
       /\ DayChanged(arts[i])
       /\ arts[i].disk = "whisper"
       /\ arts[i].ops[Len(arts[i].ops)] = "resample"
  /\ \E i \in DOMAIN arts :
       /\ DayChanged(arts[i])
       /\ arts[i].disk \in {"incomplete", "removed"}

\* The frames of a byte stream: of each its kind, as the writer meant it,
\* and the value of its first four bytes; the payload of the last frame
\* may be cut.
RECURSIVE Frames(_)
Frames(s) ==
  IF ~Has(s, Num(4)) THEN <<>>
  ELSE LET v == BigEndianUint32(<<ByteAt(s, 1), ByteAt(s, 2), ByteAt(s, 3), ByteAt(s, 4)>>)
           size == IF s[1].k = "P" THEN Add(Num(4), v) ELSE Num(4)
       IN <<[k |-> s[1].k, v |-> v]>>
          \o (IF Has(s, size) THEN Frames(Drop(s, size)) ELSE <<>>)

\* The frames are the start of a sequence of utterances, from the position q:
\* "idle" outside an utterance, "started" after a start marker, "open" after
\* a payload frame.
RECURSIVE Utterances(_, _)
Utterances(fs, q) ==
  IF fs = <<>> THEN TRUE
  ELSE CASE fs[1].k = "S" -> /\ q \in {"idle", "open"}
                             /\ fs[1].v = StartMarker
                             /\ Utterances(Tail(fs), "started")
         [] fs[1].k = "E" -> /\ q = "open"
                             /\ fs[1].v = EndMarker
                             /\ Utterances(Tail(fs), "idle")
         [] fs[1].k = "P" -> /\ q \in {"started", "open"}
                             /\ fs[1].v \notin {StartMarker, EndMarker}
                             /\ Less(Num(0), fs[1].v)
                             /\ fs[1].v[2] % 2 = 0
                             /\ Utterances(Tail(fs), "open")
         [] OTHER -> FALSE

\* C32: what processAudioChunk has written is a sequence of well-formed
\* utterances: after a start marker one or more payload frames, then at most
\* one end marker before the next start marker; no payload frame and no end
\* marker outside an utterance; every payload prefix positive, even and
\* none of the two markers.
C32_WellFormedUtterances == Utterances(Frames(stream), "idle")

\* A whole utterance was written, with its end marker, and the next one was
\* started.
C32_Witness ==
  /\ ap.isTransmitting
  /\ \E i \in DOMAIN Frames(stream) :
       /\ i > 2
       /\ Frames(stream)[i].k = "S"
       /\ Frames(stream)[i - 1].k = "E"
       /\ Frames(stream)[i - 2].k = "P"

\* The recordings ffmpeg was started on whose output has the name of a job.
Sources(job) ==
  {i \in DOMAIN arts :
     /\ Join(<<RecordingsDir>> \o WhisperPath(arts[i])) = job.FilePath
     /\ Resampled(arts[i])}

\* The calls on a file up to the first start of the resample step.
BeforeResample(a) ==
  LET rs == {j \in DOMAIN a.ops : a.ops[j] = "resample"}
  IN SubSeq(a.ops, 1, (CHOOSE j \in rs : \A l \in rs : j <= l) - 1)

Patches(a) == Cardinality({j \in DOMAIN a.ops : a.ops[j] = "patch"})

\* The utterance of this file was ended by an end marker a second or more
\* after its start marker.
Finalized(a) == FirstEnd(a) # 0 /\ a.frames[FirstEnd(a)].late

C35_RecognizerAfterResample ==
  [][\A w \in 1..Workers :
       (wk[w].pc = "run" /\ wk'[w].pc # "run")
         => \A i \in Sources(wk[w].job) : arts[i].disk # "resampling"]_vars

\* C36: handleNewAudioFile sends a job on the queue only while Stop has not
\* closed it.
C36_NoSendAfterClose ==
  [][hist'.attempts > hist.attempts => stop = "running"]_vars

\* No call of registerSubscriber or unregisterSubscriber is in progress.
NoCallInProgress ==
  \A c \in ConnIDs : conns[c].pc \notin {"register", "unregister"}

\* C37: once the calls of registerSubscriber and unregisterSubscriber have
\* returned, every subscriber that was registered and not unregistered is
\* in the subscriber list of its endpoint, whether the calls ran one after
\* the other or at the same time.
C37_RegisteredAreListed ==
  NoCallInProgress =>
    \A c \in ConnIDs :
      conns[c].pc = "open" =>
        /\ subscribers[conns[c].clientID].ok
        /\ c \in Elements(arrays, subscribers[conns[c].clientID])

\* C38: one publish sends its envelope to no wsConnection twice, and when
\* it ends it has sent to every wsConnection that was in the subscriber list
\* when it began and is in it still, whatever is unregistered meanwhile.
C38_PublishOncePerSubscriber ==
  [][\A w \in 1..Workers :
       (wk[w].pc = "send" /\ wk'[w] # wk[w]) =>
          /\ Current(w) \notin wk[w].seen
          /\ wk'[w].pc = "idle" =>
               \A c \in wk[w].at :
                 (conns'[c].pc = "open" /\ c \in Elements(arrays', subscribers'[wk[w].job.ClientID]))
                   => c \in Visited(w)]_vars

\* The runs a are the start of the runs b.
RECURSIVE IsPrefix(_, _)
IsPrefix(a, b) ==
  \/ a = <<>>
  \/ /\ b # <<>>
     /\ a[1].e = b[1].e
     /\ IF Len(a) = 1 THEN a[1].n <= b[1].n
        ELSE a[1].n = b[1].n /\ IsPrefix(Tail(a), Tail(b))

\* C40: what writePump has written to the connection of a subscriber is the
\* start of what the outbound queue of that subscriber has accepted: the
\* envelopes in the order they were accepted, none twice, and what was
\* accepted and neither written nor lost in a failed write is in the queue
\* behind it.
C40_WrittenInAcceptedOrder ==
  \A c \in ConnIDs :
    /\ IsPrefix(conns[c].out, conns[c].acc)
    /\ ChanLen(conns[c].out) + ChanLen(conns[c].send) <= ChanLen(conns[c].acc)
    /\ conns[c].wp = "run" =>
         ChanLen(conns[c].out) + ChanLen(conns[c].send) = ChanLen(conns[c].acc)

\* Two different envelopes were written to a connection and a third was
\* accepted behind them.
C40_Witness ==
  \E c \in ConnIDs :
    /\ Len(conns[c].out) > 1
    /\ ChanLen(conns[c].acc) > ChanLen(conns[c].out)

\* The directory of a day in the recordings tree.
DayDir(day) == Join(<<RecordingsDir, day>>)

\* C39: the directory of every day for which ingest has made a recording
\* is in the watch set of the watcher, or is put there when the watcher
\* handles the create event of the directory.
C39_DayDirectoryWatched ==
  \A i \in DOMAIN arts :
    \/ DayDir(arts[i].path[1]) \in watched
    \/ ENABLED (/\ handleFSEvent(Event(<<arts[i].path[1]>>, Create, TRUE), TRUE)
                /\ DayDir(arts[i].path[1]) \in watched')

====
